---- MODULE Spec2Model ----
(***************************************************************************)
(* A model of FayCite's citation pipeline: the CitationFormatter           *)
(* (citation_formatter.py) with its IEEE numbering state, and the part of  *)
(* CitationProcessor.process_paper (citation_processor.py) that drives it. *)
(*                                                                         *)
(* Python strings are sequences of one-character strings, so that          *)
(* formatting, regular expressions and sorting are computed, not assumed.  *)
(* Python values that reach the formatter inside dictionaries are tagged   *)
(* records [t, v]: a str, None, an int, a list or a dict.                  *)
(***************************************************************************)
EXTENDS Integers, Sequences, FiniteSets, TLC

VARIABLES
    style,              \* CitationFormatter.style
    citation_counter,   \* CitationFormatter._citation_counter
    citation_map,       \* CitationFormatter._citation_map: filename -> number
    client,             \* CitationProcessor.client is configured
    library,            \* PDFLibrary.library: filename -> metadata of the document
    pdf_pages,          \* PDFLibrary.library: filename and pages, in the order added
    entries,            \* BibliographyParser.entries: lowercased title -> entry
    raw_entries,        \* BibliographyParser.raw_entries, in the order parsed
    run,                \* the run of process_paper under way: its position,
                        \* the claims left, citations_found, cited_text
    order,              \* history: filenames in order of first IEEE in-text
                        \* citation since reset_state or set_style(IEEE)
    before,             \* history: the map as reset_state last found it
    arg,                \* the input a specification draws at the start
    call                \* the last call made: its name, inputs and result

vars == <<style, citation_counter, citation_map, client, library, pdf_pages, entries,
          raw_entries, run, order, before, arg, call>>

-----------------------------------------------------------------------------
(* Characters and strings                                                  *)

\* The printable ASCII characters in code-point order, from 32 to 126 (the
\* grave accent, code point 96, is written GRAVE: the lexer rejects it).
Ascii ==
    << " ", "!", "\"", "#", "$", "%", "&", "'", "(", ")", "*", "+", ",", "-",
       ".", "/", "0", "1", "2", "3", "4", "5", "6", "7", "8", "9", ":", ";",
       "<", "=", ">", "?", "@", "A", "B", "C", "D", "E", "F", "G", "H", "I",
       "J", "K", "L", "M", "N", "O", "P", "Q", "R", "S", "T", "U", "V", "W",
       "X", "Y", "Z", "[", "\\", "]", "^", "_", "GRAVE", "a", "b", "c", "d", "e",
       "f", "g", "h", "i", "j", "k", "l", "m", "n", "o", "p", "q", "r", "s",
       "t", "u", "v", "w", "x", "y", "z", "{", "|", "}", "~" >>

Chars == {Ascii[i] : i \in 1..Len(Ascii)} \cup {"\t", "\n"}

\* ord(c): the code point, which is what Python compares strings by.
Ord == [c \in Chars |->
          IF c = "\t" THEN 9
          ELSE IF c = "\n" THEN 10
          ELSE 31 + (CHOOSE i \in 1..Len(Ascii) : Ascii[i] = c)]

Digits == {"0", "1", "2", "3", "4", "5", "6", "7", "8", "9"}
Letters == {c \in Chars : (Ord[c] >= 65 /\ Ord[c] <= 90) \/ (Ord[c] >= 97 /\ Ord[c] <= 122)}
\* str.isspace and the whitespace class of re, within the modelled alphabet.
Whitespace == {" ", "\t", "\n"}

DigitVal(c) == Ord[c] - 48

\* a < b for Python strings: lexicographic by code point.
RECURSIVE StrLess(_, _)
StrLess(a, b) ==
    IF b = <<>> THEN FALSE
    ELSE IF a = <<>> THEN TRUE
    ELSE IF Ord[Head(a)] # Ord[Head(b)] THEN Ord[Head(a)] < Ord[Head(b)]
    ELSE StrLess(Tail(a), Tail(b))

StrLeq(a, b) == a = b \/ StrLess(a, b)

\* s.startswith(p)
StartsWith(s, p) == Len(s) >= Len(p) /\ SubSeq(s, 1, Len(p)) = p

\* s.endswith(p)
EndsWith(s, p) == Len(s) >= Len(p) /\ SubSeq(s, Len(s) - Len(p) + 1, Len(s)) = p

\* s[i:] with a 0-based i, as Python slices.
From(s, i) == SubSeq(s, i + 1, Len(s))

\* s.lstrip(), s.rstrip(), s.strip()
RECURSIVE LStrip(_)
LStrip(s) == IF s # <<>> /\ Head(s) \in Whitespace THEN LStrip(Tail(s)) ELSE s

RECURSIVE RStrip(_)
RStrip(s) ==
    IF s # <<>> /\ s[Len(s)] \in Whitespace THEN RStrip(SubSeq(s, 1, Len(s) - 1)) ELSE s

Strip(s) == RStrip(LStrip(s))

\* s.rstrip of commas
RECURSIVE RStripComma(_)
RStripComma(s) ==
    IF s # <<>> /\ s[Len(s)] = "," THEN RStripComma(SubSeq(s, 1, Len(s) - 1)) ELSE s

\* s.split(): the maximal runs of non-whitespace characters.
RECURSIVE SplitFrom(_, _, _)
SplitFrom(s, cur, acc) ==
    IF s = <<>> THEN (IF cur = <<>> THEN acc ELSE Append(acc, cur))
    ELSE IF Head(s) \in Whitespace
         THEN SplitFrom(Tail(s), <<>>, IF cur = <<>> THEN acc ELSE Append(acc, cur))
         ELSE SplitFrom(Tail(s), Append(cur, Head(s)), acc)

Split(s) == SplitFrom(s, <<>>, <<>>)

\* sep.join(parts)
RECURSIVE Join(_, _)
Join(sep, parts) ==
    IF parts = <<>> THEN <<>>
    ELSE IF Len(parts) = 1 THEN parts[1]
    ELSE parts[1] \o sep \o Join(sep, Tail(parts))

\* s.replace(old, new), old non-empty: left to right, non-overlapping.
RECURSIVE Replace(_, _, _)
Replace(s, old, new) ==
    IF s = <<>> THEN <<>>
    ELSE IF StartsWith(s, old) THEN new \o Replace(From(s, Len(old)), old, new)
    ELSE <<Head(s)>> \o Replace(Tail(s), old, new)

\* str(n) for a natural number n.
RECURSIVE NatToStr(_)
NatToStr(n) ==
    IF n < 10 THEN <<Ascii[17 + n]>>
    ELSE NatToStr(n \div 10) \o <<Ascii[17 + (n % 10)]>>

\* The value of a string of decimal digits.
RECURSIVE DigitsVal(_, _)
DigitsVal(s, acc) ==
    IF s = <<>> THEN acc ELSE DigitsVal(Tail(s), 10 * acc + DigitVal(Head(s)))

\* A variant of list.sort() that leaves the list as it is.
Unsorted(l) == l

\* list.sort() of a list of strings.
RECURSIVE Insert(_, _)
Insert(x, sorted) ==
    IF sorted = <<>> THEN <<x>>
    ELSE IF StrLess(x, Head(sorted)) THEN <<x>> \o sorted
    ELSE <<Head(sorted)>> \o Insert(x, Tail(sorted))

RECURSIVE Sort(_)
Sort(l) == IF l = <<>> THEN <<>> ELSE Insert(l[Len(l)], Sort(SubSeq(l, 1, Len(l) - 1)))

-----------------------------------------------------------------------------
(* Regular expressions (the re module, on the modelled alphabet)           *)
(*                                                                         *)
(* A pattern is a tree: Cls(S) one character of S, Dot any character but   *)
(* a newline, Cat(<<p1, ..., pn>>) a sequence, Star(p) and Plus(p)         *)
(* repetition, Rep(p, n) exactly n times. Ends(p, s, i) is the set of      *)
(* positions j such that p matches s[i:j] (0-based, as Python slices).     *)

Cls(S) == [k |-> "cls", cs |-> S, xs |-> <<>>]
Lit(c) == Cls({c})
Dot == [k |-> "dot", cs |-> {}, xs |-> <<>>]
Cat(ps) == [k |-> "cat", cs |-> {}, xs |-> ps]
Star(p) == [k |-> "star", cs |-> {}, xs |-> <<p>>]
Plus(p) == Cat(<<p, Star(p)>>)
Rep(p, n) == Cat([i \in 1..n |-> p])
\* A literal string.
Str(s) == Cat([i \in 1..Len(s) |-> Lit(s[i])])

RECURSIVE Ends(_, _, _)
RECURSIVE CatEnds(_, _, _, _)
RECURSIVE StarEnds(_, _, _, _)

Ends(p, s, i) ==
    CASE p.k = "cls" -> IF i < Len(s) /\ s[i + 1] \in p.cs THEN {i + 1} ELSE {}
      [] p.k = "dot" -> IF i < Len(s) /\ s[i + 1] # "\n" THEN {i + 1} ELSE {}
      [] p.k = "cat" -> CatEnds(p.xs, 1, s, {i})
      [] p.k = "star" -> StarEnds(p.xs[1], s, {i}, {i})

CatEnds(ps, n, s, from) ==
    IF n > Len(ps) \/ from = {} THEN from
    ELSE CatEnds(ps, n + 1, s, UNION {Ends(ps[n], s, j) : j \in from})

StarEnds(p, s, frontier, acc) ==
    LET nxt == (UNION {Ends(p, s, j) : j \in frontier}) \ acc
    IN  IF nxt = {} THEN acc ELSE StarEnds(p, s, nxt, acc \cup nxt)

\* re.match(p, s) is not None
ReMatch(p, s) == Ends(p, s, 0) # {}

Max(S) == CHOOSE x \in S : \A y \in S : y <= x
Min(S) == CHOOSE x \in S : \A y \in S : x <= y

\* The end of group 1 of re.match of (g)rest on s for a greedy g: the longest
\* match of g after which rest matches; -1 when there is no match.
GroupEnd(g, rest, s) ==
    LET ok == {j \in Ends(g, s, 0) : Ends(rest, s, j) # {}}
    IN  IF ok = {} THEN 0 - 1 ELSE Max(ok)

\* re.search of four digits in s: the 0-based start of the first, or -1.
FourDigitsAt(s, i) == i + 4 <= Len(s) /\ \A k \in 1..4 : s[i + k] \in Digits

SearchYear(s) ==
    LET at == {i \in 0..Len(s) : FourDigitsAt(s, i)}
    IN  IF at = {} THEN 0 - 1 ELSE Min(at)

\* re.findall of four digits in s: the non-overlapping tokens, left to right.
RECURSIVE FindAllYears(_)
FindAllYears(s) ==
    LET i == SearchYear(s)
    IN  IF i < 0 THEN <<>>
        ELSE <<SubSeq(s, i + 1, i + 4)>> \o FindAllYears(From(s, i + 4))

\* re.sub removing every parenthesised four-digit token of s.
ParenYearAt(s) ==
    Len(s) >= 6 /\ s[1] = "(" /\ s[6] = ")" /\ \A k \in 2..5 : s[k] \in Digits

RECURSIVE RemoveParenYears(_)
RemoveParenYears(s) ==
    IF s = <<>> THEN <<>>
    ELSE IF ParenYearAt(s) THEN RemoveParenYears(From(s, 6))
    ELSE <<Head(s)>> \o RemoveParenYears(Tail(s))

\* A local variable of a method: body, with the value assigned to its name.
With(value, body(_)) == body(value)

-----------------------------------------------------------------------------
(* Python values                                                           *)

PyStr(s) == [t |-> "str", v |-> s]
PyNone == [t |-> "none", v |-> <<>>]
PyInt(n) == [t |-> "int", v |-> <<n>>]
PyList(l) == [t |-> "list", v |-> l]
\* A dict: d is a function from the keys present to their values.
PyDict(d) == [t |-> "dict", v |-> d]
EmptyDict == PyDict(<<>>)

IsStr(x) == x.t = "str"

\* bool(x)
Truthy(x) ==
    CASE x.t = "str" -> x.v # <<>>
      [] x.t = "none" -> FALSE
      [] x.t = "int" -> x.v[1] # 0
      [] x.t = "list" -> x.v # <<>>
      [] x.t = "dict" -> DOMAIN x.v # {}

S_None == <<"N", "o", "n", "e">>

\* str(x), as the f-strings apply it (a str, None or a natural number).
ToStr(x) ==
    CASE x.t = "str" -> x.v
      [] x.t = "none" -> S_None
      [] x.t = "int" -> NatToStr(x.v[1])

\* d.get(key, default) for a dict d.
Get(d, key, default) == IF key \in DOMAIN d.v THEN d.v[key] ELSE default

\* What a call gives: a value, or an exception.
Ok(x) == [ok |-> TRUE, v |-> x]
Raise == [ok |-> FALSE, v |-> PyNone]

\* int(s) for a stripped str s: an optional sign, then digits with single
\* underscores between them; anything else is a ValueError.
IntBody(s) == IF s # <<>> /\ s[1] \in {"+", "-"} THEN Tail(s) ELSE s

IsIntLiteral(s) ==
    LET b == IntBody(s)
    IN  /\ b # <<>>
        /\ \A i \in 1..Len(b) : b[i] \in Digits \cup {"_"}
        /\ b[1] \in Digits
        /\ b[Len(b)] \in Digits
        /\ \A i \in 1..(Len(b) - 1) : ~(b[i] = "_" /\ b[i + 1] = "_")

IntVal(s) ==
    LET b == IntBody(s)
        n == DigitsVal(SelectSeq(b, LAMBDA c : c \in Digits), 0)
    IN  IF s[1] = "-" THEN 0 - n ELSE n

-----------------------------------------------------------------------------
(* CitationFormatter: the styles and the string literals of the grammar    *)

Styles == {"APA", "MLA", "Chicago", "IEEE"}

\* datetime.now().year when the formatter was constructed.
current_year == 2026

S_pdf == <<".", "p", "d", "f">>
S_and == <<" ", "a", "n", "d", " ">>
S_etal == <<" ", "e", "t", " ", "a", "l", ".">>
S_nd == <<"n", ".", "d", ".">>
S_Unknown == <<"U", "n", "k", "n", "o", "w", "n">>
S_UnknownSource == S_Unknown \o <<" ", "s", "o", "u", "r", "c", "e">>
S_UnknownNd == <<"(">> \o S_Unknown \o <<",", " ">> \o S_nd \o <<")">>
S_Untitled ==
    <<"U", "n", "t", "i", "t", "l", "e", "d", " ", "D", "o", "c", "u", "m", "e", "n", "t">>
S_References == <<"R", "e", "f", "e", "r", "e", "n", "c", "e", "s">>
S_WorksCited == <<"W", "o", "r", "k", "s", " ", "C", "i", "t", "e", "d">>
S_Bibliography == <<"B", "i", "b", "l", "i", "o", "g", "r", "a", "p", "h", "y">>
Quote == <<"\"">>

-----------------------------------------------------------------------------
(* Field extraction                                                        *)

NameChars == Cls(Letters \cup Whitespace)
Spaces == Star(Cls(Whitespace))

\* author_patterns, each split into its group and what follows the group.
author_patterns ==
    << Cat(<<Spaces, Lit("("), Rep(Cls(Digits), 4), Lit(")")>>),
       Cat(<<Spaces, Lit("-")>>),
       Cat(<<Spaces, Lit("_")>>) >>

\* parts[-1] of s.split(), or s itself when there are no parts.
LastPartOr(s, other) ==
    With(Split(s), LAMBDA parts : IF parts # <<>> THEN parts[Len(parts)] ELSE other)

\* _extract_author from the filename: the first pattern that matches decides.
AuthorFromFilename(st, filename, short_form) ==
    IF ~IsStr(filename) THEN Raise
    ELSE
      With(Replace(filename.v, S_pdf, <<>>), LAMBDA filename_clean :
      With([i \in 1..Len(author_patterns) |->
              GroupEnd(Plus(NameChars), author_patterns[i], filename_clean)], LAMBDA ends :
      With({i \in 1..Len(author_patterns) : ends[i] >= 0}, LAMBDA hit :
          IF hit = {} THEN Ok(PyStr(<<>>))
          ELSE
            With(Strip(SubSeq(filename_clean, 1, ends[Min(hit)])), LAMBDA author :
                IF short_form /\ st # "IEEE"
                THEN Ok(PyStr(LastPartOr(author, author)))
                ELSE Ok(PyStr(author))))))

\* _extract_author from the single author field, else from the filename.
AuthorFromField(st, metadata, filename, short_form) ==
    With(Get(metadata, "author", PyStr(<<>>)), LAMBDA a :
        IF ~IsStr(a) THEN Raise
        ELSE
          With(Strip(a.v), LAMBDA author :
              IF author # <<>>
              THEN IF short_form /\ st # "IEEE"
                   THEN Ok(PyStr(LastPartOr(author, author)))
                   ELSE Ok(PyStr(author))
              ELSE AuthorFromFilename(st, filename, short_form)))

\* The join of a non-empty authors list.
JoinAuthors(l) ==
    IF Len(l) = 1 THEN l[1]
    ELSE IF Len(l) = 2 THEN PyStr(ToStr(l[1]) \o S_and \o ToStr(l[2]))
    ELSE PyStr(ToStr(l[1]) \o S_etal)

\* _extract_author from a non-empty authors list.
AuthorFromList(st, l, short_form) ==
    IF ~short_form THEN Ok(JoinAuthors(l))
    ELSE IF st = "IEEE"
    THEN IF \A i \in 1..Len(l) : IsStr(l[i])
         THEN Ok(PyStr(Join(<<",", " ">>, [i \in 1..Len(l) |-> l[i].v])))
         ELSE Raise
    ELSE IF ~IsStr(l[1]) THEN Raise
    ELSE With(Split(l[1].v), LAMBDA parts :
             IF parts # <<>> THEN Ok(PyStr(parts[Len(parts)])) ELSE Ok(JoinAuthors(l)))

_extract_author(st, metadata, filename, short_form) ==
    IF metadata.t # "dict" THEN Raise
    ELSE
      With(Get(metadata, "authors", PyList(<<>>)), LAMBDA authors_list :
          IF Truthy(authors_list) /\ authors_list.t = "list"
          THEN AuthorFromList(st, authors_list.v, short_form)
          ELSE AuthorFromField(st, metadata, filename, short_form))

ValidYear(n) == 1900 <= n /\ n <= current_year

\* A variant of the search in the filename that looks at the first four-digit
\* token alone.
YearFromFilename_first_token(filename) ==
    IF ~IsStr(filename) THEN Raise
    ELSE
      With(FindAllYears(filename.v), LAMBDA year_matches :
          IF year_matches # <<>> /\ ValidYear(DigitsVal(year_matches[1], 0))
          THEN Ok(PyStr(year_matches[1]))
          ELSE Ok(PyNone))

\* _extract_year from the filename: the first four-digit token in range.
YearFromFilename(filename) ==
    IF ~IsStr(filename) THEN Raise
    ELSE
      With(FindAllYears(filename.v), LAMBDA year_matches :
      With({i \in 1..Len(year_matches) : ValidYear(DigitsVal(year_matches[i], 0))}, LAMBDA good :
          IF good = {} THEN Ok(PyNone) ELSE Ok(PyStr(year_matches[Min(good)]))))

\* _extract_year from the creation date, else from the filename.
YearFromCreationDate(metadata, filename) ==
    With(Get(metadata, "creation_date", PyStr(<<>>)), LAMBDA creation_date :
    With(ToStr(creation_date), LAMBDA s :
    With(SearchYear(s), LAMBDA i :
    With(DigitsVal(SubSeq(s, i + 1, i + 4), 0), LAMBDA year_int :
        IF Truthy(creation_date) /\ i >= 0 /\ ValidYear(year_int)
        THEN Ok(PyStr(NatToStr(year_int)))
        ELSE YearFromFilename(filename)))))

_extract_year(metadata, filename) ==
    IF metadata.t # "dict" THEN Raise
    ELSE
      With(Get(metadata, "year", PyStr(<<>>)), LAMBDA y :
          IF ~IsStr(y) THEN Raise
          ELSE
            With(Strip(y.v), LAMBDA year :
                IF year # <<>> /\ IsIntLiteral(year) /\ ValidYear(IntVal(year))
                THEN Ok(PyStr(NatToStr(IntVal(year))))
                ELSE YearFromCreationDate(metadata, filename)))

\* re.sub of a leading run of name characters closed by c.
StripLead(s, c) ==
    With(Ends(Cat(<<Plus(NameChars), Lit(c)>>), s, 0), LAMBDA ends :
        IF ends = {} THEN s ELSE From(s, Max(ends)))

\* _extract_title from the filename.
TitleFromFilename(filename) ==
    With(Replace(filename, S_pdf, <<>>), LAMBDA t1 :
    With(RemoveParenYears(t1), LAMBDA t2 :
    With(StripLead(t2, "-"), LAMBDA t3 :
    With(StripLead(t3, "_"), LAMBDA t4 :
    With(Replace(Replace(t4, <<"_">>, <<" ">>), <<"-">>, <<" ">>), LAMBDA t5 :
    With(Join(<<" ">>, Split(t5)), LAMBDA t6 :
        IF t6 # <<>> THEN Strip(t6) ELSE S_Untitled))))))

_extract_title(metadata, filename) ==
    IF metadata.t # "dict" THEN Raise
    ELSE
      With(Get(metadata, "title", PyStr(<<>>)), LAMBDA t :
          IF ~IsStr(t) THEN Raise
          ELSE IF Strip(t.v) # <<>> THEN Ok(PyStr(Strip(t.v)))
          ELSE IF ~IsStr(filename) THEN Raise
          ELSE Ok(PyStr(TitleFromFilename(filename.v))))

-----------------------------------------------------------------------------
(* The sources of the model                                                *)

\* Three sources named by their files: author and year, author only, year only.
FileA == PyStr(<<"A", "d", "a", "m", "s", "_", "2", "0", "1", "9", "_", "S", "o", "i", "l", ".", "p", "d", "f">>)
FileB == PyStr(<<"B", "r", "o", "w", "n", " ", "-", " ", "R", "i", "v", "e", "r", "s", ".", "p", "d", "f">>)
FileC == PyStr(<<"c", "2", "0", "2", "1", ".", "p", "d", "f">>)
Files == {FileA, FileB, FileC}
NoFile == PyStr(<<>>)

\* Metadata as the library stores it, and metadata that makes the extraction
\* raise: a year that is a number, not a str.
MetaPlain == EmptyDict
MetaFull ==
    PyDict(("author" :> PyStr(<<"J", "a", "n", "e", " ", "D", "o", "e">>)) @@ ("year" :> PyStr(<<"2", "0", "2", "0">>))
           @@ ("title" :> PyStr(<<"D", "e", "e", "p", " ", "T", "h", "i", "n", "g", "s">>)))
MetaBadYear == PyDict(("year" :> PyInt(2020)))
Metas == {MetaPlain, MetaFull, MetaBadYear, PyNone}

Source(filename, metadata) == PyDict(("filename" :> filename) @@ ("metadata" :> metadata))
Citation(source, metadata) == PyDict(("source" :> source) @@ ("metadata" :> metadata))

\* The extraction is a function of its arguments alone: for the sources of the
\* model its results are computed once and looked up afterwards.
AuthorTable ==
    [st \in Styles, metadata \in Metas, filename \in Files \cup {NoFile}, short_form \in BOOLEAN
       |-> _extract_author(st, metadata, filename, short_form)]
YearTable ==
    [metadata \in Metas, filename \in Files \cup {NoFile} |-> _extract_year(metadata, filename)]
TitleTable ==
    [metadata \in Metas, filename \in Files \cup {NoFile} |-> _extract_title(metadata, filename)]

\* self._extract_author(...), self._extract_year(...) and
\* self._extract_title(...) as the formatting methods call them.
Author(st, metadata, filename, short_form) ==
    IF <<st, metadata, filename, short_form>> \in DOMAIN AuthorTable
    THEN AuthorTable[st, metadata, filename, short_form]
    ELSE _extract_author(st, metadata, filename, short_form)

Year(metadata, filename) ==
    IF <<metadata, filename>> \in DOMAIN YearTable
    THEN YearTable[metadata, filename]
    ELSE _extract_year(metadata, filename)

Title(metadata, filename) ==
    IF <<metadata, filename>> \in DOMAIN TitleTable
    THEN TitleTable[metadata, filename]
    ELSE _extract_title(metadata, filename)

-----------------------------------------------------------------------------
(* Citations: _format_<style>_citation                                     *)
(* author is a value (a str unless a one-element authors list holds        *)
(* something else), year a str or None, title a non-empty string.          *)

\* f'"{title}"' if not title.startswith('"') else title
formatted_title(title) ==
    IF StartsWith(title, Quote) THEN title ELSE Quote \o title \o Quote

_format_apa_citation(author, year, title) ==
    IF Truthy(author) /\ Truthy(year)
    THEN ToStr(author) \o <<" ", "(">> \o ToStr(year) \o <<")", ".", " ">> \o title \o <<".">>
    ELSE IF Truthy(author)
    THEN ToStr(author) \o <<" ", "(">> \o S_nd \o <<")", ".", " ">> \o title \o <<".">>
    ELSE IF Truthy(year)
    THEN title \o <<" ", "(">> \o ToStr(year) \o <<")", ".">>
    ELSE title \o <<" ", "(">> \o S_nd \o <<")", ".">>

\* A variant of _format_mla_citation that closes the title with a full stop
\* when there is no year.
_format_mla_citation_closed(author, year, title) ==
    IF Truthy(author) /\ Truthy(year)
    THEN ToStr(author) \o <<".", " ">> \o formatted_title(title) \o <<" ">> \o ToStr(year) \o <<".">>
    ELSE IF Truthy(author)
    THEN ToStr(author) \o <<".", " ">> \o formatted_title(title) \o <<".">>
    ELSE IF Truthy(year)
    THEN formatted_title(title) \o <<" ">> \o ToStr(year) \o <<".">>
    ELSE formatted_title(title) \o <<".">>

_format_mla_citation(author, year, title) ==
    IF Truthy(author)
    THEN IF Truthy(year)
         THEN ToStr(author) \o <<".", " ">> \o formatted_title(title) \o <<" ">> \o ToStr(year) \o <<".">>
         ELSE ToStr(author) \o <<".", " ">> \o formatted_title(title)
    ELSE IF Truthy(year)
         THEN formatted_title(title) \o <<" ">> \o ToStr(year) \o <<".">>
         ELSE formatted_title(title)

_format_chicago_citation(author, year, title) ==
    IF Truthy(author) /\ Truthy(year)
    THEN ToStr(author) \o <<".", " ">> \o ToStr(year) \o <<".", " ">> \o Quote \o title \o Quote \o <<".">>
    ELSE IF Truthy(author)
    THEN ToStr(author) \o <<".", " ">> \o S_nd \o <<" ">> \o Quote \o title \o Quote \o <<".">>
    ELSE IF Truthy(year)
    THEN Quote \o title \o Quote \o <<".", " ">> \o ToStr(year) \o <<".">>
    ELSE Quote \o title \o Quote \o <<".", " ">> \o S_nd

_format_ieee_citation(author, year, title) ==
    IF Truthy(author) /\ Truthy(year)
    THEN ToStr(author) \o <<",", " ">> \o formatted_title(title) \o <<" ">> \o ToStr(year) \o <<".">>
    ELSE IF Truthy(author)
    THEN ToStr(author) \o <<",", " ">> \o formatted_title(title)
    ELSE IF Truthy(year)
    THEN formatted_title(title) \o <<" ">> \o ToStr(year) \o <<".">>
    ELSE formatted_title(title)

\* The dispatch on self.style, shared by format_citation.
CitationByStyle(st, author, year, title) ==
    CASE st = "APA" -> _format_apa_citation(author, year, title)
      [] st = "MLA" -> _format_mla_citation(author, year, title)
      [] st = "Chicago" -> _format_chicago_citation(author, year, title)
      [] st = "IEEE" -> _format_ieee_citation(author, year, title)

\* A variant of format_citation whose except branch returns 'Unknown source'
\* whatever the source is.
format_citation_unknown(st, source_info) ==
    With(Get(source_info, "filename", PyStr(<<>>)), LAMBDA filename :
    With(Get(source_info, "metadata", EmptyDict), LAMBDA metadata :
    With(Author(st, metadata, filename, FALSE), LAMBDA author :
    With(Year(metadata, filename), LAMBDA year :
    With(Title(metadata, filename), LAMBDA title :
        IF author.ok /\ year.ok /\ title.ok
        THEN PyStr(CitationByStyle(st, author.v, year.v, title.v.v))
        ELSE PyStr(S_UnknownSource))))))

\* format_citation(source_info) under style st: the try block, and the
\* except branch that returns source_info.get('filename', 'Unknown source').
format_citation(st, source_info) ==
    With(Get(source_info, "filename", PyStr(<<>>)), LAMBDA filename :
    With(Get(source_info, "metadata", EmptyDict), LAMBDA metadata :
    With(Author(st, metadata, filename, FALSE), LAMBDA author :
    With(Year(metadata, filename), LAMBDA year :
    With(Title(metadata, filename), LAMBDA title :
        IF author.ok /\ year.ok /\ title.ok
        THEN PyStr(CitationByStyle(st, author.v, year.v, title.v.v))
        ELSE Get(source_info, "filename", PyStr(S_UnknownSource)))))))

-----------------------------------------------------------------------------
(* In-text citations: _format_<style>_in_text                              *)

\* The closing of an in-text citation, with the page when there is one.
_format_apa_in_text(author, year, page) ==
    With(IF Truthy(author) /\ Truthy(year)
         THEN <<"(">> \o ToStr(author) \o <<",", " ">> \o ToStr(year)
         ELSE IF Truthy(author)
         THEN <<"(">> \o ToStr(author) \o <<",", " ">> \o S_nd
         ELSE <<"(">> \o S_Unknown \o <<",", " ">> \o S_nd, LAMBDA base_citation :
        IF Truthy(page)
        THEN base_citation \o <<",", " ", "p", ".", " ">> \o ToStr(page) \o <<")">>
        ELSE base_citation \o <<")">>)

_format_mla_in_text(author, year, page) ==
    IF Truthy(author)
    THEN IF Truthy(page)
         THEN <<"(">> \o ToStr(author) \o <<" ">> \o ToStr(page) \o <<")">>
         ELSE <<"(">> \o ToStr(author) \o <<")">>
    ELSE IF Truthy(page)
         THEN <<"(">> \o S_Unknown \o <<" ">> \o ToStr(page) \o <<")">>
         ELSE <<"(">> \o S_Unknown \o <<")">>

_format_chicago_in_text(author, year, page) ==
    With(IF Truthy(author) /\ Truthy(year)
         THEN <<"(">> \o ToStr(author) \o <<" ">> \o ToStr(year)
         ELSE IF Truthy(author)
         THEN <<"(">> \o ToStr(author) \o <<" ">> \o S_nd
         ELSE <<"(">> \o S_Unknown \o <<" ">> \o S_nd, LAMBDA base_citation :
        IF Truthy(page)
        THEN base_citation \o <<",", " ">> \o ToStr(page) \o <<")">>
        ELSE base_citation \o <<")">>)

\* The text _format_ieee_in_text returns for a number.
IeeeInText(number, page) ==
    IF Truthy(page)
    THEN <<"[">> \o NatToStr(number) \o <<",", " ", "p", ".", " ">> \o ToStr(page) \o <<"]">>
    ELSE <<"[">> \o NatToStr(number) \o <<"]">>

\* A variant of _format_ieee_in_text that hands out the next number without
\* recording it; the numbering properties are checked to tell it apart.
_format_ieee_in_text_unrecorded(counter, map, filename, page) ==
    [counter |-> counter + 1, map |-> map, out |-> IeeeInText(counter + 1, page)]

\* _format_ieee_in_text(filename, page) on the numbering state (counter, map):
\* the new counter, the new map and the text returned.
_format_ieee_in_text(counter, map, filename, page) ==
    With(filename \notin DOMAIN map, LAMBDA is_new :
    With(IF is_new THEN counter + 1 ELSE counter, LAMBDA counter1 :
    With(IF is_new THEN (filename :> counter1) @@ map ELSE map, LAMBDA map1 :
        [counter |-> counter1, map |-> map1, out |-> IeeeInText(map1[filename], page)])))

\* A variant of format_in_text_citation that numbers the filename under every
\* style and before the extraction.
format_in_text_citation_numbering(st, counter, map, source_info, page) ==
    With(_format_ieee_in_text(counter, map, Get(source_info, "filename", PyStr(<<>>)), page),
         LAMBDA r : [counter |-> r.counter, map |-> r.map, out |-> PyStr(r.out)])

\* format_in_text_citation(source_info, page) under style st on the numbering
\* state: the try block (the extraction comes before the style dispatch) and
\* the except branch that returns "(Unknown, n.d.)".
format_in_text_citation(st, counter, map, source_info, page) ==
    With(Get(source_info, "metadata", EmptyDict), LAMBDA metadata :
    With(Get(source_info, "filename", PyStr(<<>>)), LAMBDA filename :
    With(Author(st, metadata, filename, TRUE), LAMBDA author :
    With(Year(metadata, filename), LAMBDA year :
        IF ~(author.ok /\ year.ok)
        THEN [counter |-> counter, map |-> map, out |-> PyStr(S_UnknownNd)]
        ELSE IF st = "IEEE"
        THEN With(_format_ieee_in_text(counter, map, filename, page), LAMBDA r :
                 [counter |-> r.counter, map |-> r.map, out |-> PyStr(r.out)])
        ELSE [counter |-> counter, map |-> map, out |-> PyStr(
                CASE st = "APA" -> _format_apa_in_text(author.v, year.v, page)
                  [] st = "MLA" -> _format_mla_in_text(author.v, year.v, page)
                  [] st = "Chicago" -> _format_chicago_in_text(author.v, year.v, page))]))))

-----------------------------------------------------------------------------
(* Full references: _format_<style>_full_reference                         *)
(* Each builds a list of parts and joins it with single spaces.            *)

Opt(cond, part) == IF cond THEN <<part>> ELSE <<>>

\* metadata.get('journal', metadata.get('subject', ''))
JournalOf(metadata) == Get(metadata, "journal", Get(metadata, "subject", PyStr(<<>>)))
Field(metadata, key) == Get(metadata, key, PyStr(<<>>))

\* The DOI or URL part that closes a reference.
DoiOrUrl(metadata, doi_pre, doi_post, url_pre, url_post) ==
    With(Field(metadata, "doi"), LAMBDA doi :
    With(Field(metadata, "url"), LAMBDA url :
        IF Truthy(doi) THEN <<doi_pre \o ToStr(doi) \o doi_post>>
        ELSE IF Truthy(url) THEN <<url_pre \o ToStr(url) \o url_post>>
        ELSE <<>>))

_format_apa_full_reference(author, year, title, metadata) ==
    With(JournalOf(metadata), LAMBDA journal :
    With(Field(metadata, "volume"), LAMBDA volume :
    With(Field(metadata, "issue"), LAMBDA issue :
    With(Field(metadata, "pages"), LAMBDA pages :
    With(Field(metadata, "publisher"), LAMBDA publisher :
    With(IF Truthy(author) /\ Truthy(year)
         THEN ToStr(author) \o <<" ", "(">> \o ToStr(year) \o <<")", ".">>
         ELSE IF Truthy(author)
         THEN ToStr(author) \o <<" ", "(">> \o S_nd \o <<")", ".">>
         ELSE title \o <<" ", "(">> \o ToStr(year) \o <<")", ".">>, LAMBDA head :
    With(<<"*">> \o ToStr(journal) \o <<"*">>
         \o (IF Truthy(volume) /\ Truthy(issue)
             THEN <<",", " ">> \o ToStr(volume) \o <<"(">> \o ToStr(issue) \o <<")">>
             ELSE IF Truthy(volume) THEN <<",", " ">> \o ToStr(volume) ELSE <<>>)
         \o (IF Truthy(pages) THEN <<",", " ">> \o ToStr(pages) ELSE <<>>), LAMBDA journal_part :
    With(<<head>>
         \o Opt(Truthy(author), title \o <<".">>)
         \o Opt(Truthy(journal), journal_part \o <<".">>)
         \o Opt(Truthy(publisher) /\ ~Truthy(journal), ToStr(publisher) \o <<".">>)
         \o DoiOrUrl(metadata, <<"h", "t", "t", "p", "s", ":", "/", "/", "d", "o", "i", ".", "o", "r", "g", "/">>, <<>>, <<>>, <<>>), LAMBDA parts :
        IF title = <<>> THEN PyNone
        ELSE IF ~Truthy(author) /\ ~Truthy(year) THEN PyStr(title \o <<" ", "(">> \o S_nd \o <<")", ".">>)
        ELSE PyStr(Join(<<" ">>, parts))))))))))

\* parts.insert(-1, x): before the last element (an append to an empty list).
InsertBeforeLast(parts, x) ==
    IF parts = <<>> THEN <<x>>
    ELSE SubSeq(parts, 1, Len(parts) - 1) \o <<x>> \o <<parts[Len(parts)]>>

_format_mla_full_reference(author, year, title, metadata) ==
    With(JournalOf(metadata), LAMBDA journal :
    With(Field(metadata, "volume"), LAMBDA volume :
    With(Field(metadata, "issue"), LAMBDA issue :
    With(Field(metadata, "pages"), LAMBDA pages :
    With(Field(metadata, "publisher"), LAMBDA publisher :
    With(Opt(Truthy(author), ToStr(author) \o <<".">>)
         \o <<formatted_title(title)>>
         \o Opt(Truthy(journal), <<"*">> \o ToStr(journal) \o <<"*", ",">>)
         \o Opt(Truthy(journal) /\ Truthy(volume) /\ Truthy(issue),
                <<"v", "o", "l", ".", " ">> \o ToStr(volume) \o <<",", " ", "n", "o", ".", " ">> \o ToStr(issue) \o <<",">>)
         \o Opt(Truthy(journal) /\ Truthy(volume) /\ ~Truthy(issue),
                <<"v", "o", "l", ".", " ">> \o ToStr(volume) \o <<",">>)
         \o Opt(Truthy(year), ToStr(year) \o <<",">>), LAMBDA p1 :
    With(p1[Len(p1)], LAMBDA last :
    With(IF Truthy(pages)
         THEN Append(p1, IF Truthy(journal) THEN <<"p", "p", ".", " ">> \o ToStr(pages) \o <<".">>
                         ELSE ToStr(pages) \o <<".">>)
         ELSE IF EndsWith(last, <<",">>)
         THEN [p1 EXCEPT ![Len(p1)] = RStripComma(last) \o <<".">>]
         ELSE p1, LAMBDA p2 :
    With(IF Truthy(publisher) /\ ~Truthy(journal)
         THEN IF Truthy(year) THEN InsertBeforeLast(p2, ToStr(publisher) \o <<",">>)
              ELSE Append(p2, ToStr(publisher) \o <<".">>)
         ELSE p2, LAMBDA p3 :
    With(p3 \o DoiOrUrl(metadata, <<"D", "O", "I", ":", " ">>, <<".">>, <<"W", "e", "b", ".", " ">>, <<".">>), LAMBDA parts :
        IF title = <<>> THEN PyNone ELSE PyStr(Join(<<" ">>, parts))))))))))))

_format_chicago_full_reference(author, year, title, metadata) ==
    With(JournalOf(metadata), LAMBDA journal :
    With(Field(metadata, "volume"), LAMBDA volume :
    With(Field(metadata, "issue"), LAMBDA issue :
    With(Field(metadata, "pages"), LAMBDA pages :
    With(Field(metadata, "publisher"), LAMBDA publisher :
    With(IF Truthy(year) THEN ToStr(author) \o <<".", " ">> \o ToStr(year) \o <<".">>
         ELSE ToStr(author) \o <<".", " ">> \o S_nd, LAMBDA head :
    With(<<"*">> \o ToStr(journal) \o <<"*">>
         \o (IF Truthy(volume) /\ Truthy(issue)
             THEN <<" ">> \o ToStr(volume) \o <<",", " ", "n", "o", ".", " ">> \o ToStr(issue)
             ELSE IF Truthy(volume) THEN <<" ">> \o ToStr(volume) ELSE <<>>)
         \o (IF Truthy(pages)
             THEN IF Truthy(year) THEN <<" ", "(">> \o ToStr(year) \o <<")", ":", " ">> \o ToStr(pages) \o <<".">>
                  ELSE <<":", " ">> \o ToStr(pages) \o <<".">>
             ELSE IF Truthy(year) THEN <<" ", "(">> \o ToStr(year) \o <<")", ".">> ELSE <<".">>), LAMBDA journal_part :
    With(<<head, formatted_title(title)>>
         \o Opt(Truthy(journal), journal_part)
         \o Opt(Truthy(publisher) /\ ~Truthy(journal), ToStr(publisher) \o <<".">>)
         \o Opt(~Truthy(publisher) /\ ~Truthy(journal), <<".">>)
         \o DoiOrUrl(metadata, <<"d", "o", "i", ":">>, <<".">>, <<"A", "c", "c", "e", "s", "s", "e", "d", " ", "v", "i", "a", " ">>, <<".">>), LAMBDA parts :
        IF title = <<>> THEN PyNone
        ELSE IF ~Truthy(author) /\ Truthy(year)
        THEN PyStr(formatted_title(title) \o <<" ">> \o ToStr(year) \o <<".">>)
        ELSE IF ~Truthy(author) THEN PyStr(formatted_title(title) \o <<" ">> \o S_nd)
        ELSE PyStr(Join(<<" ">>, parts))))))))))

_format_ieee_full_reference(author, year, title, metadata) ==
    With(JournalOf(metadata), LAMBDA journal :
    With(Field(metadata, "volume"), LAMBDA volume :
    With(Field(metadata, "issue"), LAMBDA issue :
    With(Field(metadata, "pages"), LAMBDA pages :
    With(Field(metadata, "publisher"), LAMBDA publisher :
    With(<<"*">> \o ToStr(journal) \o <<"*">>
         \o (IF Truthy(volume) /\ Truthy(issue)
             THEN <<",", " ", "v", "o", "l", ".", " ">> \o ToStr(volume) \o <<",", " ", "n", "o", ".", " ">> \o ToStr(issue)
             ELSE IF Truthy(volume) THEN <<",", " ", "v", "o", "l", ".", " ">> \o ToStr(volume) ELSE <<>>)
         \o (IF Truthy(pages) THEN <<",", " ", "p", "p", ".", " ">> \o ToStr(pages) ELSE <<>>)
         \o (IF Truthy(year) THEN <<",", " ">> \o ToStr(year) \o <<".">> ELSE <<".">>), LAMBDA journal_part :
    With(IF Truthy(publisher) /\ Truthy(year)
         THEN ToStr(publisher) \o <<",", " ">> \o ToStr(year) \o <<".">>
         ELSE IF Truthy(year) THEN ToStr(year) \o <<".">>
         ELSE IF Truthy(publisher) THEN ToStr(publisher) \o <<".">>
         ELSE <<".">>, LAMBDA book_part :
    With(Opt(Truthy(author), ToStr(author) \o <<",">>)
         \o <<formatted_title(title)>>
         \o <<IF Truthy(journal) THEN journal_part ELSE book_part>>
         \o DoiOrUrl(metadata, <<"D", "O", "I", ":", " ">>, <<>>, <<"[", "O", "n", "l", "i", "n", "e", "]", ".", " ", "A", "v", "a", "i", "l", "a", "b", "l", "e", ":", " ">>, <<>>), LAMBDA parts :
        IF title = <<>> THEN PyNone ELSE PyStr(Join(<<" ">>, parts))))))))))

\* _format_full_reference(citation) under style st: the reference, or None
\* when the extraction raises.
_format_full_reference(st, citation) ==
    With(Get(citation, "metadata", EmptyDict), LAMBDA metadata :
    With(Get(citation, "source", PyStr(<<>>)), LAMBDA filename :
    With(Author(st, metadata, filename, FALSE), LAMBDA author :
    With(Year(metadata, filename), LAMBDA year :
    With(Title(metadata, filename), LAMBDA title :
        IF ~(author.ok /\ year.ok /\ title.ok) THEN PyNone
        ELSE CASE st = "APA" ->
                    _format_apa_full_reference(author.v, year.v, title.v.v, metadata)
               [] st = "MLA" ->
                    _format_mla_full_reference(author.v, year.v, title.v.v, metadata)
               [] st = "Chicago" ->
                    _format_chicago_full_reference(author.v, year.v, title.v.v, metadata)
               [] st = "IEEE" ->
                    _format_ieee_full_reference(author.v, year.v, title.v.v, metadata))))))

_get_reference_header(st) ==
    IF st = "MLA" THEN S_WorksCited
    ELSE IF st = "Chicago" THEN S_Bibliography
    ELSE S_References

-----------------------------------------------------------------------------
(* format_reference_list                                                   *)

SourceOf(citation) == Get(citation, "source", PyStr(<<>>))

\* The first loop: the references of the distinct non-empty sources, each
\* formatted from the first citation of the source that yields a reference.
RECURSIVE CollectReferences(_, _, _, _, _)
CollectReferences(st, citations, i, references, seen_sources) ==
    IF i > Len(citations) THEN references
    ELSE
      With(SourceOf(citations[i]), LAMBDA source :
      With(_format_full_reference(st, citations[i]), LAMBDA ref :
          IF Truthy(source) /\ source \notin seen_sources /\ Truthy(ref)
          THEN CollectReferences(st, citations, i + 1, Append(references, ref.v),
                                 seen_sources \cup {source})
          ELSE CollectReferences(st, citations, i + 1, references, seen_sources)))

\* The IEEE loop over the citations whose source has a number: the slots
\* of ordered_references (None where nothing was stored).
RECURSIVE OrderedReferences(_, _, _, _, _)
OrderedReferences(map, citations, i, ordered_references, n) ==
    IF i > Len(citations) THEN ordered_references
    ELSE
      With(SourceOf(citations[i]), LAMBDA source :
      With(_format_full_reference("IEEE", citations[i]), LAMBDA ref :
          IF source \in DOMAIN map /\ Truthy(ref) /\ 0 <= map[source] - 1 /\ map[source] - 1 < n
          THEN OrderedReferences(map, citations, i + 1,
                                 [ordered_references EXCEPT ![map[source]] = ref], n)
          ELSE OrderedReferences(map, citations, i + 1, ordered_references, n)))

\* A variant of the loop below that lists the last citation first.
RECURSIVE UnmappedReferencesReversed(_, _, _)
UnmappedReferencesReversed(map, citations, i) ==
    IF i > Len(citations) THEN <<>>
    ELSE
      With(SourceOf(citations[i]), LAMBDA source :
      With(_format_full_reference("IEEE", citations[i]), LAMBDA ref :
          UnmappedReferencesReversed(map, citations, i + 1)
          \o (IF source \notin DOMAIN map /\ Truthy(ref) THEN <<ref.v>> ELSE <<>>)))

\* The IEEE loop over the citations whose source has no number.
RECURSIVE UnmappedReferences(_, _, _)
UnmappedReferences(map, citations, i) ==
    IF i > Len(citations) THEN <<>>
    ELSE
      With(SourceOf(citations[i]), LAMBDA source :
      With(_format_full_reference("IEEE", citations[i]), LAMBDA ref :
          (IF source \notin DOMAIN map /\ Truthy(ref) THEN <<ref.v>> ELSE <<>>)
          \o UnmappedReferences(map, citations, i + 1)))

\* A variant of final_refs that lists the references without a number first.
IeeeFinalRefs_unmapped_first(map, citations, n) ==
    With(SelectSeq(OrderedReferences(map, citations, 1, [k \in 1..n |-> PyNone], n),
                   LAMBDA r : r # PyNone), LAMBDA kept :
        UnmappedReferences(map, citations, 1) \o [k \in 1..Len(kept) |-> kept[k].v])

\* final_refs of the IEEE branch, given the number of collected references.
IeeeFinalRefs(map, citations, n) ==
    With(SelectSeq(OrderedReferences(map, citations, 1, [k \in 1..n |-> PyNone], n),
                   LAMBDA r : r # PyNone), LAMBDA kept :
        [k \in 1..Len(kept) |-> kept[k].v] \o UnmappedReferences(map, citations, 1))

S_Break == <<"\n", "\n">>

\* The text of the list: the header, then each line followed by a blank line.
RECURSIVE ReferenceText(_, _, _)
ReferenceText(lines, i, numbered) ==
    IF i > Len(lines) THEN <<>>
    ELSE (IF numbered THEN <<"[">> \o NatToStr(i) \o <<"]", " ">> ELSE <<>>)
         \o lines[i] \o S_Break \o ReferenceText(lines, i + 1, numbered)

S_ErrorFormatting == <<"E", "r", "r", "o", "r", " ", "f", "o", "r", "m", "a", "t", "t", "i", "n", "g", " ", "r", "e", "f", "e", "r", "e", "n", "c", "e", "s", ".">>

\* format_reference_list(citations) under style st with the numbering map.
format_reference_list(st, map, citations) ==
    IF \E i \in 1..Len(citations) : citations[i].t # "dict"
    THEN PyStr(_get_reference_header(st) \o S_Break \o S_ErrorFormatting)
    ELSE
      With(CollectReferences(st, citations, 1, <<>>, {}), LAMBDA references :
          IF references = <<>> THEN PyStr(<<>>)
          ELSE IF st = "IEEE"
          THEN PyStr(Strip(S_References \o S_Break
                 \o ReferenceText(IeeeFinalRefs(map, citations, Len(references)), 1, TRUE)))
          ELSE PyStr(Strip(_get_reference_header(st) \o S_Break
                 \o ReferenceText(Sort(references), 1, FALSE))))

-----------------------------------------------------------------------------
(* validate_citation_format                                                *)

D4 == Rep(Cls(Digits), 4)
SomeChars == Plus(Dot)
AnyRest == Star(Dot)

\* The patterns of _validate_apa_format, in order.
apa_patterns ==
    << Cat(<<SomeChars, Spaces, Lit("("), D4, Lit(")"), Lit("."), AnyRest>>),
       Cat(<<SomeChars, Spaces, Str(<<"(", "n", ".", "d", ".", ")", ".">>), AnyRest>>),
       Cat(<<Lit("("), SomeChars, Lit(","), Spaces, D4, Lit(")")>>),
       Cat(<<Lit("("), SomeChars, Lit(","), Spaces, Str(<<"n", ".", "d", ".", ")">>)>>) >>

\* The patterns of _validate_mla_format.
mla_patterns ==
    << Cat(<<SomeChars, Lit("."), Spaces, Lit("\""), SomeChars, Lit("\""), Spaces, D4, Lit("."), AnyRest>>),
       Cat(<<Lit("("), SomeChars, Plus(Cls(Whitespace)), Plus(Cls(Digits)), Lit(")")>>) >>

\* The patterns of _validate_chicago_format.
chicago_patterns ==
    << Cat(<<SomeChars, Lit("."), Spaces, D4, Lit("."), Spaces, Lit("\""), SomeChars, Lit("\""),
             Lit("."), AnyRest>>),
       Cat(<<Lit("("), SomeChars, Plus(Cls(Whitespace)), D4, Lit(")")>>) >>

\* The patterns of _validate_ieee_format.
ieee_patterns ==
    << Cat(<<Lit("["), Plus(Cls(Digits)), Lit("]")>>),
       Cat(<<SomeChars, Lit(","), Spaces, Lit("\""), SomeChars, Lit("\""), AnyRest>>) >>

MatchesAny(patterns, s) == \E i \in 1..Len(patterns) : ReMatch(patterns[i], s)

_validate_apa_format(citation) == MatchesAny(apa_patterns, citation)
_validate_mla_format(citation) == MatchesAny(mla_patterns, citation)
_validate_chicago_format(citation) == MatchesAny(chicago_patterns, citation)
_validate_ieee_format(citation) == MatchesAny(ieee_patterns, citation)

\* validate_citation_format(citation) under style st; re.match raises on a
\* value that is no str, and the except branch returns False.
validate_citation_format(st, citation) ==
    IF ~IsStr(citation) THEN FALSE
    ELSE CASE st = "APA" -> _validate_apa_format(citation.v)
           [] st = "MLA" -> _validate_mla_format(citation.v)
           [] st = "Chicago" -> _validate_chicago_format(citation.v)
           [] st = "IEEE" -> _validate_ieee_format(citation.v)

-----------------------------------------------------------------------------
(* The formatter as a state machine                                        *)

\* __init__(style): the numbering state of a new formatter.
NewFormatter == [counter |-> 0, map |-> <<>>]

\* Variants of set_style: one that clears the numbering for every style, one
\* that never clears it.
set_style_clearing(new_style, counter, map) ==
    [style |-> new_style, counter |-> 0, map |-> <<>>]
set_style_keeping(new_style, counter, map) ==
    [style |-> new_style, counter |-> counter, map |-> map]

\* set_style(new_style) on the numbering state: the state it leaves.
set_style(new_style, counter, map) ==
    IF new_style = "IEEE"
    THEN [style |-> new_style, counter |-> 0, map |-> <<>>]
    ELSE [style |-> new_style, counter |-> counter, map |-> map]

\* A variant of reset_state that empties the map and leaves the counter.
reset_state_keeping_counter(counter, map) == [counter |-> counter, map |-> <<>>]

\* reset_state() on the numbering state: the state it leaves.
reset_state(counter, map) == [counter |-> 0, map |-> <<>>]

\* pdf_library.get_pdf_content(filename)['metadata'] for the documents stored.
Library == (FileA :> MetaPlain) @@ (FileB :> MetaFull)

\* The pages add_pdf stored for the documents of docs, in the order they were
\* added: one page of readable text each.
PageOne == <<"R", "i", "v", "e", "r", "s", " ", "f", "l", "o", "o", "d", " ", "t", "h", "e", " ", "p", "l", "a", "i", "n", "s", " ", "i", "n", " ", "s", "p", "r", "i", "n", "g", " ", "a", "n", "d", " ", "t", "h", "e", " ", "f", "i", "e", "l", "d", "s", " ", "s", "t", "a", "y", " ", "w", "e", "t", " ", "f", "o", "r", " ", "w", "e", "e", "k", "s", ".">>
StoredPages(docs) ==
    [i \in 1..Len(docs) |-> [filename |-> docs[i], pages |-> <<[page |-> 1, text |-> PageOne]>>]]

\* The formatter as a call finds it.
Pre == [style |-> style, counter |-> citation_counter, map |-> citation_map]

InSeq(x, seq) == \E i \in 1..Len(seq) : seq[i] = x

\* Whether the extraction of a citation, of an in-text citation, goes through
\* (no exception).
CitationExtracts(st, source_info) ==
    With(Get(source_info, "metadata", EmptyDict), LAMBDA metadata :
    With(Get(source_info, "filename", PyStr(<<>>)), LAMBDA filename :
        /\ Author(st, metadata, filename, FALSE).ok
        /\ Year(metadata, filename).ok
        /\ Title(metadata, filename).ok))

InTextExtracts(st, source_info) ==
    With(Get(source_info, "metadata", EmptyDict), LAMBDA metadata :
    With(Get(source_info, "filename", PyStr(<<>>)), LAMBDA filename :
        Author(st, metadata, filename, TRUE).ok /\ Year(metadata, filename).ok))

\* The call c ran into an exception and returned its fallback.
Degraded(c) ==
    \/ c.op = "format_citation" /\ ~CitationExtracts(c.pre.style, c.args[1])
    \/ c.op = "format_in_text_citation" /\ ~InTextExtracts(c.pre.style, c.args[1])

\* The last call: the operation, its arguments, what it returned, the
\* formatter it found and whether the call before it returned a fallback.
NoCall ==
    [op |-> "none", args |-> <<>>, out |-> PyNone,
     pre |-> [style |-> "none", counter |-> 0, map |-> <<>>], after_failure |-> FALSE]
Called(op, args, out) ==
    [op |-> op, args |-> args, out |-> out, pre |-> Pre, after_failure |-> Degraded(call)]

\* No run of process_paper is under way.
NoRun == [pc |-> "idle", left |-> 0, citations_found |-> <<>>, cited_text |-> <<>>]

\* The history of first citations after an in-text citation under style st:
\* the filenames that reached the IEEE in-text formatter since the numbering
\* was last cleared, in the order of their first citation.
OrderAfter(st, seq, source_info) ==
    IF st = "IEEE" /\ InTextExtracts(st, source_info)
          /\ ~InSeq(Get(source_info, "filename", PyStr(<<>>)), seq)
    THEN Append(seq, Get(source_info, "filename", PyStr(<<>>)))
    ELSE seq

SetStyle(new_style) ==
    LET r == set_style(new_style, citation_counter, citation_map)
    IN  /\ run.pc = "idle"
        /\ style' = r.style
        /\ citation_counter' = r.counter
        /\ citation_map' = r.map
        /\ order' = IF new_style = "IEEE" THEN <<>> ELSE order
        /\ call' = Called("set_style", <<new_style>>, PyNone)
        /\ UNCHANGED <<client, pdf_pages, library, entries, raw_entries, run, before, arg>>

ResetState ==
    LET r == reset_state(citation_counter, citation_map)
    IN  /\ run.pc = "idle"
        /\ citation_counter' = r.counter
        /\ citation_map' = r.map
        /\ order' = <<>>
        /\ before' = citation_map
        /\ call' = Called("reset_state", <<>>, PyNone)
        /\ UNCHANGED <<style, client, pdf_pages, library, entries, raw_entries, run, arg>>

FormatInTextCitation(source_info, page) ==
    LET r == format_in_text_citation(style, citation_counter, citation_map, source_info, page)
    IN  /\ run.pc = "idle"
        /\ citation_counter' = r.counter
        /\ citation_map' = r.map
        /\ order' = OrderAfter(style, order, source_info)
        /\ call' = Called("format_in_text_citation", <<source_info, page>>, r.out)
        /\ UNCHANGED <<style, client, pdf_pages, library, entries, raw_entries, run, before, arg>>

FormatCitation(source_info) ==
    /\ run.pc = "idle"
    /\ call' = Called("format_citation", <<source_info>>, format_citation(style, source_info))
    /\ UNCHANGED <<style, citation_counter, citation_map, client, pdf_pages, library, entries,
                   raw_entries, run, order, before, arg>>

FormatReferenceList(citations) ==
    /\ run.pc = "idle"
    /\ call' = Called("format_reference_list", <<citations>>,
                      format_reference_list(style, citation_map, citations))
    /\ UNCHANGED <<style, citation_counter, citation_map, client, pdf_pages, library, entries,
                   raw_entries, run, order, before, arg>>

ValidateCitationFormat(citation) ==
    /\ run.pc = "idle"
    /\ call' = Called("validate_citation_format", <<citation>>,
                      IF validate_citation_format(style, citation) THEN PyInt(1) ELSE PyInt(0))
    /\ UNCHANGED <<style, citation_counter, citation_map, client, pdf_pages, library, entries,
                   raw_entries, run, order, before, arg>>

-----------------------------------------------------------------------------
(* A session of one formatter                                              *)

Page7 == PyStr(<<"7">>)

\* The calls of format_in_text_citation in a session: each source with
\* metadata as the library stores it, one with a page, one with metadata that
\* makes the extraction raise.
SessionInText ==
    {<<Source(f, MetaPlain), PyNone>> : f \in Files}
    \cup {<<Source(FileA, MetaPlain), Page7>>, <<Source(FileA, MetaBadYear), PyNone>>}

SessionSources == {Source(FileA, MetaFull), Source(FileB, MetaBadYear)}

SessionCitations ==
    { <<Citation(FileB, MetaPlain), Citation(FileA, MetaFull), Citation(FileB, MetaFull)>> }

SessionStrings == {PyStr(<<"[", "1", "]">>), PyNone}

Init ==
    /\ style \in Styles
    /\ citation_counter = NewFormatter.counter
    /\ citation_map = NewFormatter.map
    /\ client = FALSE
    /\ library = Library
    /\ pdf_pages = StoredPages(<<FileA, FileB>>)
    /\ entries = <<>>
    /\ raw_entries = <<>>
    /\ run = NoRun
    /\ order = <<>>
    /\ before = <<>>
    /\ arg = <<>>
    /\ call = NoCall

Next ==
    \/ \E s \in Styles : SetStyle(s)
    \/ ResetState
    \/ \E c \in SessionInText : FormatInTextCitation(c[1], c[2])
    \/ \E si \in SessionSources : FormatCitation(si)
    \/ \E cs \in SessionCitations : FormatReferenceList(cs)
    \/ \E c \in SessionStrings : ValidateCitationFormat(c)

\* A session of one formatter: any interleaving of its public operations.
Spec == Init /\ [][Next]_vars

-----------------------------------------------------------------------------
(* Properties of the numbering in a session                                *)

Rank(x, seq) == CHOOSE i \in 1..Len(seq) : seq[i] = x

\* The last call was an in-text citation under IEEE whose extraction went
\* through, so that it reached _format_ieee_in_text.
IeeeInTextCall ==
    /\ call.op = "format_in_text_citation"
    /\ call.pre.style = "IEEE"
    /\ InTextExtracts("IEEE", call.args[1])

CalledFile == Get(call.args[1], "filename", PyStr(<<>>))

\* C1: under IEEE, from a new or reset formatter, every filename has the
\* number equal to its rank of first citation: the map numbers the filenames
\* cited since the numbering was cleared by their position in the order of
\* first citation, the counter is their count, and an in-text citation returns
\* the rank of its filename, whatever was assigned before the clearing.
C1_NumberIsRankOfFirstCitation ==
    /\ citation_counter = Len(order)
    /\ DOMAIN citation_map = {order[i] : i \in 1..Len(order)}
    /\ \A i \in 1..Len(order) : citation_map[order[i]] = i
    /\ IeeeInTextCall =>
         call.out = PyStr(IeeeInText(Rank(CalledFile, order), call.args[2]))

\* C1 witness: A, B, C were numbered 1, 2, 3, reset_state cleared that, and
\* citing B then A gave B = 1 and A = 2.
C1_Witness ==
    /\ before = (FileA :> 1) @@ (FileB :> 2) @@ (FileC :> 3)
    /\ order = <<FileB, FileA>>
    /\ citation_map = (FileB :> 1) @@ (FileA :> 2)
    /\ IeeeInTextCall
    /\ CalledFile = FileA
    /\ call.out = PyStr(<<"[", "2", "]">>)

\* The numbers the call found are all still assigned, and an IEEE in-text
\* citation of a filename that had a number returned that number.
NumbersKept ==
    /\ \A f \in DOMAIN call.pre.map :
         f \in DOMAIN citation_map /\ citation_map[f] = call.pre.map[f]
    /\ (IeeeInTextCall /\ CalledFile \in DOMAIN call.pre.map) =>
         call.out = PyStr(IeeeInText(call.pre.map[CalledFile], call.args[2]))

\* C2 as stated: a number once given is kept, and returned by every later
\* IEEE in-text citation of the filename, across every call but reset_state.
C2_KeptUntilResetState == call.op # "reset_state" => NumbersKept

\* C2 amended: a number once given is kept, and returned by every later IEEE
\* in-text citation of the filename that reaches the IEEE formatter, across
\* every call but reset_state and set_style("IEEE").
C2_KeptUntilCleared ==
    (call.op # "reset_state" /\ ~(call.op = "set_style" /\ call.args[1] = "IEEE"))
      => NumbersKept

\* C2 witness: a change of style from IEEE to MLA that found A = 1 and B = 2
\* and left them.
C2_Witness ==
    /\ call.op = "set_style"
    /\ call.args[1] = "MLA"
    /\ call.pre.style = "IEEE"
    /\ call.pre.map = (FileA :> 1) @@ (FileB :> 2)
    /\ citation_map = (FileA :> 1) @@ (FileB :> 2)

\* C3: set_style(s) leaves the style s; it leaves the counter 0 and the map
\* empty if s is IEEE, and leaves both as it found them otherwise.
C3_SetStyleFrame ==
    call.op = "set_style" =>
      /\ style = call.args[1]
      /\ IF call.args[1] = "IEEE"
         THEN citation_counter = 0 /\ citation_map = <<>>
         ELSE citation_counter = call.pre.counter /\ citation_map = call.pre.map

\* C3 witness: set_style("IEEE") on a formatter that was under IEEE already
\* and had two sources numbered.
C3_Witness ==
    /\ call.op = "set_style"
    /\ call.args[1] = "IEEE"
    /\ call.pre.style = "IEEE"
    /\ call.pre.counter = 2
    /\ citation_counter = 0
    /\ citation_map = <<>>

-----------------------------------------------------------------------------
(* CitationProcessor.process_paper                                         *)
(* The inference client and the searches of the library are outside the    *)
(* program: what they answer for a claim is an input of the step.          *)

\* The most claims _identify_claims returns for a paper.
MaxClaims == 3

\* A variant of process_paper that leaves the formatter as the last run left it.
process_paper_no_reset(counter, map) == [counter |-> counter, map |-> map]

\* process_paper, lines 92-93: reset_state() on the formatter passed.
process_paper_reset(counter, map) == reset_state(counter, map)

\* The result process_paper returns: the citations inserted in the text in
\* order (the words of the paper are left out), the sources of
\* citations_found, the references and the error marker.
Result(cited_text, citations_found, references, error) ==
    PyDict(("cited_text" :> PyList(cited_text)) @@ ("citations" :> PyList(citations_found))
           @@ ("references" :> references) @@ ("error" :> error))

\* The texts of the papers handed to process_paper.
Papers == {PyStr(<<>>), PyStr(<<"R", "i", "v", "e", "r", "s", " ", "f", "l", "o", "o", "d", ".">>)}

\* A variant of the pass-through that returns no text.
PassThrough_no_text(paper_content) ==
    PyDict(("original_text" :> paper_content) @@ ("cited_text" :> PyStr(<<>>))
           @@ ("citations" :> PyList(<<>>)) @@ ("references" :> PyStr(<<>>))
           @@ ("stats" :> PyDict(("claims_identified" :> PyInt(0))
                                 @@ ("citations_added" :> PyInt(0))
                                 @@ ("sources_used" :> PyInt(0))))
           @@ ("error" :> PyStr(<<"O", "p", "e", "n", "A", "I", " ", "c", "l", "i", "e", "n", "t", " ", "n", "o", "t", " ", "c", "o", "n", "f", "i", "g", "u", "r", "e", "d">>)))

\* process_paper, lines 70-83: what it returns without a client.
PassThrough(paper_content) ==
    PyDict(("original_text" :> paper_content) @@ ("cited_text" :> paper_content)
           @@ ("citations" :> PyList(<<>>)) @@ ("references" :> PyStr(<<>>))
           @@ ("stats" :> PyDict(("claims_identified" :> PyInt(0))
                                 @@ ("citations_added" :> PyInt(0))
                                 @@ ("sources_used" :> PyInt(0))))
           @@ ("error" :> PyStr(<<"O", "p", "e", "n", "A", "I", " ", "c", "l", "i", "e", "n", "t", " ", "n", "o", "t", " ", "c", "o", "n", "f", "i", "g", "u", "r", "e", "d">>)))

\* process_paper up to the loop over the claims: the pass-through without a
\* client; else reset_state() and the claims that _identify_claims returns.
ProcessPaperBegin(paper_content, claims) ==
    /\ run.pc = "idle"
    /\ IF ~client
       THEN /\ call' = Called("process_paper", <<paper_content>>, PassThrough(paper_content))
            /\ run' = NoRun
            /\ UNCHANGED <<citation_counter, citation_map, order, before>>
       ELSE LET r == process_paper_reset(citation_counter, citation_map)
            IN  /\ citation_counter' = r.counter
                /\ citation_map' = r.map
                /\ order' = <<>>
                /\ before' = citation_map
                /\ IF claims = 0
                   THEN /\ run' = NoRun
                        /\ call' = Called("process_paper", <<paper_content>>,
                                          Result(<<>>, <<>>, PyStr(<<>>), PyNone))
                   ELSE /\ run' = [pc |-> "claims", left |-> claims,
                                   citations_found |-> <<>>, cited_text |-> <<>>]
                        /\ call' = Called("process_paper", <<paper_content>>, PyNone)
    /\ UNCHANGED <<style, client, pdf_pages, library, entries, raw_entries, arg>>

\* One turn of the loop: _find_supporting_content gives no source or a source
\* of the library with a page; _insert_citation formats the in-text citation
\* when it locates the claim in the text.
ProcessPaperClaim(source, located) ==
    /\ run.pc = "claims"
    /\ run.left > 0
    /\ IF source = PyNone \/ ~located
       THEN /\ run' = [run EXCEPT !.left = @ - 1,
                         !.citations_found = IF source = PyNone THEN @ ELSE Append(@, source)]
            /\ UNCHANGED <<citation_counter, citation_map, order>>
       ELSE LET source_info == Source(source, Library[source])
                r == format_in_text_citation(style, citation_counter, citation_map,
                                             source_info, Page7)
            IN  /\ citation_counter' = r.counter
                /\ citation_map' = r.map
                /\ order' = OrderAfter(style, order, source_info)
                /\ run' = [run EXCEPT !.left = @ - 1,
                             !.citations_found = Append(@, source),
                             !.cited_text = Append(@, [source |-> source, text |-> r.out])]
    /\ call' = Called("process_paper", <<>>, PyNone)
    /\ UNCHANGED <<style, client, pdf_pages, library, entries, raw_entries, before, arg>>

\* The fields _generate_references_list adds to the metadata when absent.
Essential(metadata) ==
    PyDict(metadata.v
           @@ [k \in {"title", "author", "year", "journal", "volume", "issue", "pages",
                      "doi", "url", "publisher"} |-> PyStr(<<>>)]
           @@ ("authors" :> PyList(<<>>)))

\* _generate_references_list(citations_found, citation_formatter), with no
\* bibliography: the formatter reads the source and the metadata of a citation.
_generate_references_list(st, map, citations_found) ==
    IF citations_found = <<>> THEN PyStr(<<>>)
    ELSE format_reference_list(st, map,
           [i \in 1..Len(citations_found) |->
              Citation(citations_found[i], Essential(Library[citations_found[i]]))])

\* After the loop: the references and the result.
ProcessPaperEnd ==
    /\ run.pc = "claims"
    /\ run.left = 0
    /\ call' = Called("process_paper", <<>>,
                      Result([i \in 1..Len(run.cited_text) |-> run.cited_text[i].text],
                             run.citations_found,
                             _generate_references_list(style, citation_map, run.citations_found),
                             PyNone))
    /\ run' = [run EXCEPT !.pc = "idle"]
    /\ UNCHANGED <<style, citation_counter, citation_map, client, pdf_pages, library, entries,
                   raw_entries, order, before, arg>>

\* The processor is built with or without a client; the formatter is the one
\* of the session, passed to every run: a new one, or one that has numbered a
\* source before.
InitPaper ==
    /\ style \in Styles
    /\ \E used \in BOOLEAN :
         /\ citation_counter = IF used THEN 1 ELSE NewFormatter.counter
         /\ citation_map = IF used THEN (FileB :> 1) ELSE NewFormatter.map
         /\ order = IF used THEN <<FileB>> ELSE <<>>
    /\ client \in BOOLEAN
    /\ library = Library
    /\ pdf_pages = StoredPages(<<FileA, FileB>>)
    /\ entries = <<>>
    /\ raw_entries = <<>>
    /\ run = NoRun
    /\ before = <<>>
    /\ arg = <<>>
    /\ call = NoCall

NextPaper ==
    \/ \E s \in Styles : SetStyle(s)
    \/ \E paper_content \in Papers, claims \in 0..MaxClaims :
         ProcessPaperBegin(paper_content, claims)
    \/ \E source \in DOMAIN Library \cup {PyNone}, located \in BOOLEAN :
         ProcessPaperClaim(source, located)
    \/ ProcessPaperEnd

\* Runs of process_paper on the formatter of a session, the style changed
\* between runs.
SpecPaper == InitPaper /\ [][NextPaper]_vars

\* C4: with a client, process_paper resets the formatter before the first
\* in-text citation of the run: under IEEE, during and after a run the
\* numbered sources are those cited in-text in this run, and the first of
\* them has the number 1.
C4_RunNumbersFromOne ==
    (call.op = "process_paper" /\ client /\ style = "IEEE") =>
      /\ DOMAIN citation_map = {run.cited_text[i].source : i \in 1..Len(run.cited_text)}
      /\ run.cited_text # <<>> =>
           /\ run.cited_text[1].text = PyStr(IeeeInText(1, Page7))
           /\ citation_map[run.cited_text[1].source] = 1

\* C4 witness: a run that found A = 1 and B = 2 from the run before, and whose
\* first in-text citation, of B, got the number 1.
C4_Witness ==
    /\ call.op = "process_paper"
    /\ client
    /\ before = (FileA :> 1) @@ (FileB :> 2)
    /\ run.cited_text = <<[source |-> FileB, text |-> PyStr(<<"[", "1", ",", " ", "p", ".", " ", "7", "]">>)]>>
    /\ citation_map = (FileB :> 1)

-----------------------------------------------------------------------------
(* Reference lists                                                         *)

\* The longest citations list handed to format_reference_list.
MaxCitations == 3

\* The citations of the lists: a source is a filename or empty, the metadata
\* are dictionaries of strings as the library and the bibliography give them.
RefCitations ==
    {Citation(f, MetaPlain) : f \in Files} \cup {Citation(FileA, MetaFull), Citation(NoFile, MetaFull)}

CitationLists == UNION {[1..n -> RefCitations] : n \in 0..MaxCitations}

\* A formatter of any style and one citations list.
InitRefs ==
    /\ style \in Styles
    /\ citation_counter = NewFormatter.counter
    /\ citation_map = NewFormatter.map
    /\ client = FALSE
    /\ library = Library
    /\ pdf_pages = StoredPages(<<FileA, FileB>>)
    /\ entries = <<>>
    /\ raw_entries = <<>>
    /\ run = NoRun
    /\ order = <<>>
    /\ before = <<>>
    /\ arg \in CitationLists
    /\ call = NoCall

NextRefs ==
    \/ \E f \in Files : FormatInTextCitation(Source(f, MetaPlain), PyNone)
    \/ FormatReferenceList(arg)

\* In-text citations that number the sources in any order, and the reference
\* list of the citations drawn, at any point.
SpecRefs == InitRefs /\ [][NextRefs]_vars

\* The text cut at the blank lines: the header, then the entries.
Breaks(text) == {i \in 1..(Len(text) - 1) : text[i] = "\n" /\ text[i + 1] = "\n"}
NthBreak(text, k) ==
    CHOOSE i \in Breaks(text) : Cardinality({j \in Breaks(text) : j < i}) = k - 1
SplitBreak(text) ==
    LET n == Cardinality(Breaks(text))
    IN  [k \in 1..(n + 1) |->
           SubSeq(text, IF k = 1 THEN 1 ELSE NthBreak(text, k - 1) + 2,
                        IF k = n + 1 THEN Len(text) ELSE NthBreak(text, k) - 1)]

Header(text) == IF text = <<>> THEN <<>> ELSE Head(SplitBreak(text))
Entries(text) == IF text = <<>> THEN <<>> ELSE Tail(SplitBreak(text))

Label(n) == <<"[">> \o NatToStr(n) \o <<"]", " ">>

\* The last call was format_reference_list, under IEEE or under another style.
IeeeListCall == call.op = "format_reference_list" /\ call.pre.style = "IEEE"
PlainListCall == call.op = "format_reference_list" /\ call.pre.style # "IEEE"

\* The reference of a citation under the style of the call.
Ref(citation) == _format_full_reference(call.pre.style, citation).v

Numbered(citation) == SourceOf(citation) \in DOMAIN citation_map

\* C5 as stated: under IEEE the reference of every listed source that has a
\* number N is an entry of the list, printed with the label [N].
C5_NumberedEntryOnItsLine ==
    IeeeListCall =>
      \A i \in 1..Len(arg) :
        Numbered(arg[i]) =>
          \E j \in 1..Len(arg), k \in 1..Len(Entries(call.out.v)) :
            /\ SourceOf(arg[j]) = SourceOf(arg[i])
            /\ Entries(call.out.v)[k] = Label(citation_map[SourceOf(arg[i])]) \o Ref(arg[j])

\* The references of the citations whose source has no number, in the order of
\* the list.
UnnumberedRefs ==
    LET U == SelectSeq(arg, LAMBDA c : ~Numbered(c))
    IN  [j \in 1..Len(U) |-> Ref(U[j])]

\* The entries are labelled [1], [2], ... in order; the last ones are the
\* citations without a number in the order of the list, the ones before them
\* are citations with a number.
UnnumberedAfterNumbered ==
    LET lines == Entries(call.out.v)
        n == Len(lines)
        k == Len(UnnumberedRefs)
    IN  /\ k <= n
        /\ \A i \in 1..n : StartsWith(lines[i], Label(i))
        /\ \A j \in 1..k : lines[n - k + j] = Label(n - k + j) \o UnnumberedRefs[j]
        /\ \A i \in 1..(n - k) :
             \E j \in 1..Len(arg) : Numbered(arg[j]) /\ lines[i] = Label(i) \o Ref(arg[j])

\* C6 as stated: under IEEE every citation whose source has no number is
\* listed after the numbered entries, in the order of the list, the labels
\* running on.
C6_EveryUnnumberedListed == IeeeListCall => UnnumberedAfterNumbered

\* C6 amended: the same whenever a list is printed, that is when some citation
\* has a non-empty source; else the result is the empty string.
C6_UnnumberedListedWhenPrinted ==
    IeeeListCall =>
      IF \E i \in 1..Len(arg) : SourceOf(arg[i]) # NoFile
      THEN UnnumberedAfterNumbered
      ELSE call.out = PyStr(<<>>)

\* C6 witness: A has the number 1; the list cites B, A and C: A is printed
\* first, then B and C in the order of the list.
C6_Witness ==
    /\ IeeeListCall
    /\ citation_map = (FileA :> 1)
    /\ arg = <<Citation(FileB, MetaPlain), Citation(FileA, MetaPlain), Citation(FileC, MetaPlain)>>
    /\ Entries(call.out.v) = << Label(1) \o Ref(arg[2]), Label(2) \o Ref(arg[1]),
                                Label(3) \o Ref(arg[3]) >>

\* The distinct non-empty sources of the list, and the first citation of each.
ListedSources == {SourceOf(arg[i]) : i \in 1..Len(arg)} \ {NoFile}
FirstOf(source) == arg[Min({i \in 1..Len(arg) : SourceOf(arg[i]) = source})]

Count(x, seq) == Cardinality({i \in 1..Len(seq) : seq[i] = x})

\* C7: under APA, MLA and Chicago the list is the header of the style and
\* then one entry for each distinct non-empty source, the reference of its
\* first citation, in ascending order; nothing is printed when there is none.
C7_OnePerSourceSorted ==
    PlainListCall =>
      LET lines == Entries(call.out.v)
      IN  IF ListedSources = {} THEN call.out = PyStr(<<>>)
          ELSE /\ Header(call.out.v) = _get_reference_header(call.pre.style)
               /\ Len(lines) = Cardinality(ListedSources)
               /\ \A s \in ListedSources :
                    Count(Ref(FirstOf(s)), lines)
                      = Cardinality({t \in ListedSources : Ref(FirstOf(t)) = Ref(FirstOf(s))})
               /\ \A i \in 1..(Len(lines) - 1) : StrLeq(lines[i], lines[i + 1])

\* C7 witness: A is cited twice, first with metadata that name Jane Doe, and B
\* once in between; the two entries are printed B first, A from its first
\* citation.
C7_Witness ==
    /\ PlainListCall
    /\ call.pre.style = "APA"
    /\ arg = <<Citation(FileA, MetaFull), Citation(FileB, MetaPlain), Citation(FileA, MetaPlain)>>
    /\ Entries(call.out.v) = <<Ref(arg[2]), Ref(arg[1])>>
    /\ Ref(arg[1]) # Ref(arg[3])

-----------------------------------------------------------------------------
(* Single citations: formatting, fallback and validation                   *)

\* A file with neither an author nor a year in its name.
FileD == PyStr(<<"x", ".", "p", "d", "f">>)

\* Metadata with a list of authors.
MetaAuthors ==
    PyDict(("authors" :> PyList(<<PyStr(<<"A", "n", "n", " ", "L", "e", "e">>), PyStr(<<"B", "o", " ", "C", "h", "e", "n">>)>>)))

\* The dictionaries handed to format_citation and format_in_text_citation:
\* every filename with every metadata (also None in place of a dict and a
\* year that is no str), and dictionaries without a filename or with None for
\* it.
FormatSources ==
    {Source(f, m) : f \in Files \cup {FileD, NoFile},
                    m \in {MetaPlain, MetaFull, MetaAuthors, MetaBadYear, PyNone}}
    \cup {PyDict(("metadata" :> MetaBadYear)), EmptyDict, Source(PyNone, MetaPlain)}

Pages == {PyNone, Page7}

\* A formatter of any style and the sources of two calls.
InitFormat ==
    /\ style \in Styles
    /\ citation_counter = NewFormatter.counter
    /\ citation_map = NewFormatter.map
    /\ client = FALSE
    /\ library = Library
    /\ pdf_pages = StoredPages(<<FileA, FileB>>)
    /\ entries = <<>>
    /\ raw_entries = <<>>
    /\ run = NoRun
    /\ order = <<>>
    /\ before = <<>>
    /\ arg \in FormatSources \X FormatSources
    /\ call = NoCall

\* validate_citation_format on what format_citation has just formatted.
RoundTrip ==
    /\ call.op = "format_citation"
    /\ CitationExtracts(style, call.args[1])
    /\ ValidateCitationFormat(call.out)

NextFormat ==
    \/ \E i \in 1..2 : FormatCitation(arg[i])
    \/ \E i \in 1..2, page \in Pages : FormatInTextCitation(arg[i], page)
    \/ RoundTrip

\* Citations and in-text citations of two sources in any order, each citation
\* validated or not.
SpecFormat == InitFormat /\ [][NextFormat]_vars

\* What the extraction gives for the source of the last call.
CalledMetadata == Get(call.args[1], "metadata", EmptyDict)
CalledAuthor(short_form) == Author(call.pre.style, CalledMetadata, CalledFile, short_form).v
CalledYear == Year(CalledMetadata, CalledFile).v
CalledTitle == Title(CalledMetadata, CalledFile).v.v

\* The in-text citation of the last call when nothing raises.
InTextAsStyled ==
    CASE call.pre.style = "APA" -> _format_apa_in_text(CalledAuthor(TRUE), CalledYear, call.args[2])
      [] call.pre.style = "MLA" -> _format_mla_in_text(CalledAuthor(TRUE), CalledYear, call.args[2])
      [] call.pre.style = "Chicago" ->
           _format_chicago_in_text(CalledAuthor(TRUE), CalledYear, call.args[2])
      [] call.pre.style = "IEEE" -> IeeeInText(citation_map[CalledFile], call.args[2])

\* C8: format_citation and format_in_text_citation return a value for every
\* dictionary: when the extraction raises, format_citation returns the
\* filename of the source, or "Unknown source" when it has none, and
\* format_in_text_citation returns "(Unknown, n.d.)"; when it does not raise
\* they return the citation of the style, also right after a call that
\* returned a fallback.
C8_FallbackThenNormal ==
    /\ call.op = "format_citation" =>
         call.out = IF CitationExtracts(call.pre.style, call.args[1])
                    THEN PyStr(CitationByStyle(call.pre.style, CalledAuthor(FALSE), CalledYear,
                                               CalledTitle))
                    ELSE IF "filename" \in DOMAIN call.args[1].v
                    THEN call.args[1].v["filename"]
                    ELSE PyStr(S_UnknownSource)
    /\ call.op = "format_in_text_citation" =>
         call.out = IF InTextExtracts(call.pre.style, call.args[1])
                    THEN PyStr(InTextAsStyled)
                    ELSE PyStr(S_UnknownNd)

\* C8 witness: a source without a filename whose year is a number returned the
\* fallback, and the citation of A that followed is the APA citation of A.
C8_Witness ==
    /\ arg = <<PyDict(("metadata" :> MetaBadYear)), Source(FileA, MetaPlain)>>
    /\ call.op = "format_citation"
    /\ call.after_failure
    /\ call.args[1] = arg[2]
    /\ call.out = PyStr(<<"A", "d", "a", "m", "s", " ", "(", "2", "0", "1", "9", ")", ".", " ", "2", "0", "1", "9", " ", "S", "o", "i", "l", ".">>)

\* C9 as stated: what format_citation formats is accepted by
\* validate_citation_format under the same style, whether the source has an
\* author or not and a year or not.
C9_FormattedIsValid == call.op = "validate_citation_format" => call.out = PyInt(1)

\* The style table: a row for each style, a column for each case of author
\* and year being there; A, Y and T stand for author, year and title.
A_ == <<"%A">>
Y_ == <<"%Y">>
T_ == <<"%T">>
StyleTable ==
    [st \in Styles |->
       CASE st = "APA" ->
              [both   |-> <<A_, <<" ", "(">>, Y_, <<")", ".", " ">>, T_, <<".">>>>,
               author |-> <<A_, <<" ", "(", "n", ".", "d", ".", ")", ".", " ">>, T_, <<".">>>>,
               year   |-> <<T_, <<" ", "(">>, Y_, <<")", ".">>>>,
               none   |-> <<T_, <<" ", "(", "n", ".", "d", ".", ")", ".">>>>]
         [] st = "MLA" ->
              [both   |-> <<A_, <<".", " ", "\"">>, T_, <<"\"", " ">>, Y_, <<".">>>>,
               author |-> <<A_, <<".", " ", "\"">>, T_, <<"\"">>>>,
               year   |-> <<<<"\"">>, T_, <<"\"", " ">>, Y_, <<".">>>>,
               none   |-> <<<<"\"">>, T_, <<"\"">>>>]
         [] st = "Chicago" ->
              [both   |-> <<A_, <<".", " ">>, Y_, <<".", " ", "\"">>, T_, <<"\"", ".">>>>,
               author |-> <<A_, <<".", " ", "n", ".", "d", ".", " ", "\"">>, T_, <<"\"", ".">>>>,
               year   |-> <<<<"\"">>, T_, <<"\"", ".", " ">>, Y_, <<".">>>>,
               none   |-> <<<<"\"">>, T_, <<"\"", ".", " ", "n", ".", "d", ".">>>>]
         [] st = "IEEE" ->
              [both   |-> <<A_, <<",", " ", "\"">>, T_, <<"\"", " ">>, Y_, <<".">>>>,
               author |-> <<A_, <<",", " ", "\"">>, T_, <<"\"">>>>,
               year   |-> <<<<"\"">>, T_, <<"\"", " ">>, Y_, <<".">>>>,
               none   |-> <<<<"\"">>, T_, <<"\"">>>>]]

\* A row entry with A, Y and T replaced.
RECURSIVE Fill(_, _, _, _)
Fill(entry, a, y, t) ==
    IF entry = <<>> THEN <<>>
    ELSE (CASE Head(entry) = A_ -> a
            [] Head(entry) = Y_ -> y
            [] Head(entry) = T_ -> t
            [] OTHER -> Head(entry))
         \o Fill(Tail(entry), a, y, t)

\* The entry of the table for the source of the last call.
TableEntry ==
    LET row == StyleTable[call.pre.style]
        a == Truthy(CalledAuthor(FALSE))
        y == Truthy(CalledYear)
    IN  IF a /\ y THEN row.both ELSE IF a THEN row.author ELSE IF y THEN row.year ELSE row.none

-----------------------------------------------------------------------------
(* Full references against citations                                       *)

\* The metadata name no journal, subject, publisher, doi or url.
NoContainer(metadata) ==
    \A k \in {"journal", "subject", "publisher", "doi", "url"} : ~Truthy(Field(metadata, k))

\* The citation format_citation returns for the source of a list citation.
CitationOf(citation) ==
    format_citation(call.pre.style,
                    Source(SourceOf(citation), Get(citation, "metadata", EmptyDict))).v

\* The entries of the list without their IEEE labels.
EntryTexts ==
    [k \in 1..Len(Entries(call.out.v)) |->
       IF call.pre.style = "IEEE"
       THEN From(Entries(call.out.v)[k], Len(Label(k)))
       ELSE Entries(call.out.v)[k]]

\* C11 as stated: the entry that format_reference_list prints for a source
\* whose metadata name no journal, subject, publisher, doi or url is the
\* string format_citation returns for that source, under every style.
C11_EntryIsCitation ==
    call.op = "format_reference_list" =>
      \A i \in 1..Len(arg), k \in 1..Len(EntryTexts) :
        (NoContainer(Get(arg[i], "metadata", EmptyDict)) /\ EntryTexts[k] = Ref(arg[i]))
          => EntryTexts[k] = CitationOf(arg[i])

-----------------------------------------------------------------------------
(* Field extraction on its own                                             *)

\* A file named Author_Year_Title, one whose first four-digit token is out of
\* range and whose second is a year, one whose only token is out of range.
FileS == PyStr(<<"S", "m", "i", "t", "h", "_", "2", "0", "2", "0", "_", "C", "l", "i", "m", "a", "t", "e", "D", "a", "t", "a", ".", "p", "d", "f">>)
FileTwoTokens == PyStr(<<"r", "1", "8", "5", "0", "_", "2", "0", "1", "5", ".", "p", "d", "f">>)
FileFuture == PyStr(<<"r", "3", "0", "0", "0", ".", "p", "d", "f">>)
ExtractFiles == {FileA, FileS, FileTwoTokens, FileFuture, FileD}

\* The year and the creation date of the metadata: absent, valid at both ends
\* of the range, out of range on both sides, padded, no number.
ExtractYears == {<<"2", "0", "2", "0">>, <<"1", "9", "0", "0">>, <<"1", "8", "9", "9">>, <<"2", "0", "2", "7">>, <<" ", "2", "0", "2", "6", " ">>, <<"n", ".", "d", ".">>}
ExtractDates == {<<"D", ":", "2", "0", "2", "1", "0", "1", "0", "1">>, <<"D", ":", "1", "8", "9", "9", "0", "1", "0", "1">>, <<"D", ":", "2", "0", "2", "7", "0", "1", "0", "1">>, <<"u", "n", "k", "n", "o", "w", "n">>}

ExtractMetas ==
    {PyDict(y @@ d) :
       y \in {<<>>} \cup {("year" :> PyStr(s)) : s \in ExtractYears},
       d \in {<<>>} \cup {("creation_date" :> PyStr(s)) : s \in ExtractDates}}

\* The private extraction methods, called with the metadata and filename drawn.
ExtractAuthor(short_form) ==
    /\ call' = Called("_extract_author", <<arg[1], arg[2], short_form>>,
                      _extract_author(style, arg[1], arg[2], short_form))
    /\ UNCHANGED <<style, citation_counter, citation_map, client, pdf_pages, library, entries,
                   raw_entries, run, order, before, arg>>

ExtractYear ==
    /\ call' = Called("_extract_year", arg, _extract_year(arg[1], arg[2]))
    /\ UNCHANGED <<style, citation_counter, citation_map, client, pdf_pages, library, entries,
                   raw_entries, run, order, before, arg>>

ExtractTitle ==
    /\ call' = Called("_extract_title", arg, _extract_title(arg[1], arg[2]))
    /\ UNCHANGED <<style, citation_counter, citation_map, client, pdf_pages, library, entries,
                   raw_entries, run, order, before, arg>>

\* A formatter of any style, and the metadata and filename of one document.
InitExtract ==
    /\ style \in Styles
    /\ citation_counter = NewFormatter.counter
    /\ citation_map = NewFormatter.map
    /\ client = FALSE
    /\ library = Library
    /\ pdf_pages = StoredPages(<<FileA, FileB>>)
    /\ entries = <<>>
    /\ raw_entries = <<>>
    /\ run = NoRun
    /\ order = <<>>
    /\ before = <<>>
    /\ arg \in ExtractMetas \X ExtractFiles
    /\ call = NoCall

NextExtract ==
    \/ \E short_form \in BOOLEAN : ExtractAuthor(short_form)
    \/ ExtractYear
    \/ ExtractTitle
    \/ FormatReferenceList(<<Citation(arg[2], arg[1])>>)

\* The extraction of author, year and title from one document, and the
\* reference list of that document.
SpecExtract == InitExtract /\ [][NextExtract]_vars

\* C12 as stated: for Smith_2020_ClimateData.pdf with no metadata the author
\* is "Smith", the year "2020", the title "ClimateData", and the APA reference
\* is "Smith (2020). ClimateData.".
C12_SmithExample ==
    (arg = <<EmptyDict, FileS>>) =>
      /\ (call.op = "_extract_author" /\ ~call.args[3]) => call.out = Ok(PyStr(<<"S", "m", "i", "t", "h">>))
      /\ call.op = "_extract_year" => call.out = Ok(PyStr(<<"2", "0", "2", "0">>))
      /\ call.op = "_extract_title" => call.out = Ok(PyStr(<<"C", "l", "i", "m", "a", "t", "e", "D", "a", "t", "a">>))
      /\ (call.op = "format_reference_list" /\ call.pre.style = "APA") =>
           Entries(call.out.v) = <<<<"S", "m", "i", "t", "h", " ", "(", "2", "0", "2", "0", ")", ".", " ", "C", "l", "i", "m", "a", "t", "e", "D", "a", "t", "a", ".">>>>

\* The candidates of a call of _extract_year, by priority: the year of the
\* metadata, the first four-digit token of the creation date, the four-digit
\* tokens of the filename from left to right.
InRange(n) == 1900 <= n /\ n <= current_year
MetaYearText == Strip(Get(call.args[1], "year", PyStr(<<>>)).v)
MetaYearValid == IsIntLiteral(MetaYearText) /\ InRange(IntVal(MetaYearText))
DateText == ToStr(Get(call.args[1], "creation_date", PyStr(<<>>)))
DateToken == SubSeq(DateText, SearchYear(DateText) + 1, SearchYear(DateText) + 4)
DateValid == SearchYear(DateText) >= 0 /\ InRange(DigitsVal(DateToken, 0))
FileTokens == FindAllYears(call.args[2].v)
ValidFileTokens == {i \in 1..Len(FileTokens) : InRange(DigitsVal(FileTokens[i], 0))}

\* C13: _extract_year returns no year or a year from 1900 to the current year,
\* chosen by priority: the year of the metadata if valid, else the first
\* four-digit token of the creation date if valid, else the first valid
\* four-digit token of the filename; a candidate out of range is never
\* returned and never keeps a valid candidate of lower priority from being
\* returned.
C13_YearByPriority ==
    call.op = "_extract_year" =>
      /\ call.out.ok
      /\ \/ call.out.v = PyNone
         \/ /\ IsStr(call.out.v)
            /\ \A i \in 1..Len(call.out.v.v) : call.out.v.v[i] \in Digits
            /\ InRange(DigitsVal(call.out.v.v, 0))
      /\ call.out.v =
           IF MetaYearValid THEN PyStr(NatToStr(IntVal(MetaYearText)))
           ELSE IF DateValid THEN PyStr(DateToken)
           ELSE IF ValidFileTokens # {} THEN PyStr(FileTokens[Min(ValidFileTokens)])
           ELSE PyNone

\* C13 witness: the year of the metadata is 2027, the creation date starts
\* with 1899 and the filename holds 1850 and then 2015: 2015 is returned.
C13_Witness ==
    /\ call.op = "_extract_year"
    /\ call.args[1] = PyDict(("year" :> PyStr(<<"2", "0", "2", "7">>)) @@ ("creation_date" :> PyStr(<<"D", ":", "1", "8", "9", "9", "0", "1", "0", "1">>)))
    /\ call.args[2] = FileTwoTokens
    /\ call.out = Ok(PyStr(<<"2", "0", "1", "5">>))

-----------------------------------------------------------------------------
(* CitationProcessor: the authority of a source for a claim                *)
(* The scores are Python floats that are sums of 0.5 and of adjustments in *)
(* multiples of 0.05. They are held here in hundredths (0.65 is 65): the   *)
(* float sum of any adjustments the code can add lies within two units in  *)
(* the last place of the exact sum and on the same side of every           *)
(* threshold, so every comparison of the code gives what the comparison of *)
(* the hundredths gives.                                                   *)

\* str.lower() within the modelled alphabet.
Lower(s) ==
    [i \in 1..Len(s) |->
       IF Ord[s[i]] >= 65 /\ Ord[s[i]] <= 90 THEN Ascii[Ord[s[i]] + 1] ELSE s[i]]

\* sub in s, for strs.
Contains(s, sub) ==
    \E i \in 0..(Len(s) - Len(sub)) : SubSeq(s, i + 1, i + Len(sub)) = sub

\* The five claim types _identify_claims asks the inference client for, and a
\* type outside them, as the client may answer.
ClaimTypes == {"FACTUAL", "STATISTICAL", "THEORETICAL", "METHODOLOGICAL", "OPINION_INTERPRETATION"}
UnknownType == "COMPARATIVE"

\* The thresholds of _is_source_appropriate_for_claim_type, in hundredths.
thresholds ==
    ("FACTUAL" :> 60) @@ ("STATISTICAL" :> 65) @@ ("THEORETICAL" :> 55)
    @@ ("METHODOLOGICAL" :> 70) @@ ("OPINION_INTERPRETATION" :> 40)

\* thresholds.get(claim_type, 0.5)
ThresholdOf(claim_type) ==
    IF claim_type \in DOMAIN thresholds THEN thresholds[claim_type] ELSE 50

\* A variant that rejects a score equal to the threshold.
_is_source_appropriate_strictly_above(claim_type, authority_score) ==
    authority_score > ThresholdOf(claim_type)

_is_source_appropriate_for_claim_type(claim_type, authority_score) ==
    With(ThresholdOf(claim_type), LAMBDA threshold :
        authority_score >= threshold)

\* int(metadata['year']) inside try/except (ValueError, TypeError): the int
\* of a str that is an int literal between whitespace, or no value.
YearInt(metadata) ==
    With(Field(metadata, "year"), LAMBDA year :
        IF year.t = "int" THEN Ok(year.v[1])
        ELSE IF IsStr(year) /\ IsIntLiteral(Strip(year.v)) THEN Ok(IntVal(Strip(year.v)))
        ELSE Raise)

\* metadata.get('year') is truthy and its int is at least (at most) n.
YearAtLeast(metadata, n) ==
    Truthy(Field(metadata, "year")) /\ YearInt(metadata).ok /\ YearInt(metadata).v >= n
YearAtMost(metadata, n) ==
    Truthy(Field(metadata, "year")) /\ YearInt(metadata).ok /\ YearInt(metadata).v <= n

\* any(term in filename.lower() for term in terms)
AnyTerm(filename, terms) == \E term \in terms : Contains(Lower(filename.v), term)

\* 'university' in metadata.get('publisher', '').lower(), for a truthy publisher.
UniversityPress(metadata) ==
    /\ Truthy(Field(metadata, "publisher"))
    /\ Contains(Lower(Field(metadata, "publisher").v), <<"u", "n", "i", "v", "e", "r", "s", "i", "t", "y">>)

Adj(condition, hundredths) == IF condition THEN hundredths ELSE 0

\* Lines 332-393: the adjustments of the claim type, none for another type.
AuthorityFactors(claim_type, metadata, filename) ==
    CASE claim_type = "FACTUAL" ->
           Adj(Truthy(Field(metadata, "journal")), 20)
           + Adj(Truthy(Field(metadata, "doi")), 10)
           + Adj(UniversityPress(metadata), 10)
      [] claim_type = "STATISTICAL" ->
           Adj(Truthy(Field(metadata, "journal")), 30)
           + Adj(AnyTerm(filename, {<<"d", "a", "t", "a">>, <<"s", "t", "u", "d", "y">>, <<"s", "u", "r", "v", "e", "y">>, <<"a", "n", "a", "l", "y", "s", "i", "s">>}), 20)
           + Adj(YearAtLeast(metadata, 2015), 10)
      [] claim_type = "THEORETICAL" ->
           Adj(Truthy(Field(metadata, "journal")), 20)
           + (IF YearAtMost(metadata, 2000) THEN 10 ELSE Adj(YearAtLeast(metadata, 2010), 5))
           + Adj(AnyTerm(filename, {<<"t", "h", "e", "o", "r", "y">>, <<"f", "r", "a", "m", "e", "w", "o", "r", "k">>, <<"m", "o", "d", "e", "l">>, <<"c", "o", "n", "c", "e", "p", "t">>}), 15)
      [] claim_type = "METHODOLOGICAL" ->
           Adj(Truthy(Field(metadata, "journal")), 30)
           + Adj(AnyTerm(filename, {<<"m", "e", "t", "h", "o", "d">>, <<"p", "r", "o", "c", "e", "d", "u", "r", "e">>, <<"p", "r", "o", "t", "o", "c", "o", "l">>, <<"t", "e", "c", "h", "n", "i", "q", "u", "e">>}), 20)
           + Adj(Truthy(Field(metadata, "doi")), 10)
      [] claim_type = "OPINION_INTERPRETATION" ->
           Adj(YearAtLeast(metadata, 2018), 15)
           + Adj(Truthy(Field(metadata, "journal")), 10)
           + Adj(AnyTerm(filename, {<<"a", "n", "a", "l", "y", "s", "i", "s">>, <<"p", "e", "r", "s", "p", "e", "c", "t", "i", "v", "e">>, <<"d", "i", "s", "c", "u", "s", "s", "i", "o", "n">>, <<"r", "e", "v", "i", "e", "w">>}), 10)
      [] OTHER -> 0

\* Lines 395-399: an author and a title.
QualityIndicators(metadata) ==
    Adj(Truthy(Field(metadata, "author")), 5) + Adj(Truthy(Field(metadata, "title")), 5)

\* A variant that returns the sum without the cap.
AuthorityScore_uncapped(claim_type, metadata, filename) ==
    50 + AuthorityFactors(claim_type, metadata, filename) + QualityIndicators(metadata)

\* Lines 315 and 332-401 of _calculate_source_authority: the score of the
\* metadata the lines before have put together.
AuthorityScore(claim_type, metadata, filename) ==
    With(50 + AuthorityFactors(claim_type, metadata, filename) + QualityIndicators(metadata),
         LAMBDA score : IF score < 100 THEN score ELSE 100)

-----------------------------------------------------------------------------
(* BibliographyParser                                                      *)
(* The patterns of the parser are sequences of pieces (a character class,  *)
(* a literal, or a repetition of one), each greedy or lazy. re.search      *)
(* takes the leftmost start from which the pieces match, and for each      *)
(* piece in turn its longest (greedy) or shortest (lazy) match after which *)
(* the rest still matches.                                                 *)

\* The pieces of ps from the n-th on match s from position i.
Completes(ps, n, s, i) == CatEnds(ps, n, s, {i}) # {}

\* The end of each piece from the n-th on, for a match from position i.
RECURSIVE Spans(_, _, _, _, _)
Spans(ps, lazy, n, s, i) ==
    IF n > Len(ps) THEN <<>>
    ELSE With({j \in Ends(ps[n], s, i) : Completes(ps, n + 1, s, j)}, LAMBDA ok :
         With(IF n \in lazy THEN Min(ok) ELSE Max(ok), LAMBDA j :
             <<j>> \o Spans(ps, lazy, n + 1, s, j)))

\* re.search(pattern, s): the start of the match and the ends of its pieces;
\* the start is -1 when there is no match.
NoMatch == [start |-> 0 - 1, ends |-> <<>>]
Search(ps, lazy, s) ==
    With({i \in 0..Len(s) : Completes(ps, 1, s, i)}, LAMBDA starts :
        IF starts = {} THEN NoMatch
        ELSE [start |-> Min(starts), ends |-> Spans(ps, lazy, 1, s, Min(starts))])

\* re.search of a pattern that begins with ^: a match from position 0 only.
SearchAtStart(ps, lazy, s) ==
    IF Completes(ps, 1, s, 0) THEN [start |-> 0, ends |-> Spans(ps, lazy, 1, s, 0)]
    ELSE NoMatch

\* The text the pieces from the n-th to the m-th of a match took.
Pieces(match, s, n, m) ==
    SubSeq(s, (IF n = 1 THEN match.start ELSE match.ends[n - 1]) + 1, match.ends[m])

\* s.find(sub): the 0-based position of the first sub in s, or -1.
Find(s, sub) ==
    With({i \in 0..(Len(s) - Len(sub)) : SubSeq(s, i + 1, i + Len(sub)) = sub}, LAMBDA at :
        IF at = {} THEN 0 - 1 ELSE Min(at))

\* s.split(sep) for a non-empty sep: the parts between the occurrences of
\* sep, left to right.
RECURSIVE SplitOn(_, _)
SplitOn(s, sep) ==
    With(Find(s, sep), LAMBDA i :
        IF i < 0 THEN <<s>>
        ELSE <<SubSeq(s, 1, i)>> \o SplitOn(From(s, i + Len(sep)), sep))

\* The classes and pieces of the patterns.
NotSpace == Cls(Chars \ Whitespace)
NotPeriod == Cls(Chars \ {"."})
NotComma == Cls(Chars \ {","})
NotPeriodComma == Cls(Chars \ {".", ","})
NotParen == Cls(Chars \ {"("})
Uppercase == Cls({c \in Chars : Ord[c] >= 65 /\ Ord[c] <= 90})
Digit == Cls(Digits)
\* A letter in either case, for re.IGNORECASE.
AnyCase(c) == Cls({c, Lower(<<c>>)[1]} \cup {u \in Chars : Lower(<<u>>) = <<c>>})

\* r'\((\d{4})\)'
year_pattern == <<Lit("("), Rep(Digit, 4), Lit(")")>>
\* r'doi:([^\s]+)', re.IGNORECASE
doi_pattern == <<AnyCase("d"), AnyCase("o"), AnyCase("i"), Lit(":"), Plus(NotSpace)>>
\* r'https?://[^\s]+', with the s and without it
url_patterns ==
    <<<<Str(<<"h", "t", "t", "p", "s", ":", "/", "/">>), Plus(NotSpace)>>, <<Str(<<"h", "t", "t", "p", ":", "/", "/">>), Plus(NotSpace)>>>>
\* r'^([^(]+)\s*\('
author_pattern == <<Plus(NotParen), Spaces, Lit("(")>>
\* r'\(\d{4}\)\.\s*([^.]+)\.\s*[A-Z]'
journal_title_pattern ==
    <<Lit("("), Rep(Digit, 4), Lit(")"), Lit("."), Spaces, Plus(NotPeriod), Lit("."), Spaces,
      Uppercase>>
\* r'([A-Z][^,]+),\s*(\d+)(?:\((\d+)\))?,\s*([^.]+)\.', with the issue and
\* without it
journal_pattern_issue ==
    <<Uppercase, Plus(NotComma), Lit(","), Spaces, Plus(Digit), Lit("("), Plus(Digit), Lit(")"),
      Lit(","), Spaces, Plus(NotPeriod), Lit(".")>>
journal_pattern_no_issue ==
    <<Uppercase, Plus(NotComma), Lit(","), Spaces, Plus(Digit), Lit(","), Spaces,
      Plus(NotPeriod), Lit(".")>>
\* r'\(\d{4}\)\.\s*([^.]+)\.'
book_title_pattern ==
    <<Lit("("), Rep(Digit, 4), Lit(")"), Lit("."), Spaces, Plus(NotPeriod), Lit(".")>>
\* r'\(\d{4}\)[^.]*?\.\s*([^.,]+)'
generic_title_pattern ==
    <<Lit("("), Rep(Digit, 4), Lit(")"), Star(NotPeriod), Lit("."), Spaces, Plus(NotPeriodComma)>>

\* entry with the value of key replaced.
Set(entry, key, value) == PyDict((key :> value) @@ entry.v)

\* The authors at the beginning of the text, before the first parenthesis:
\* [author.strip() for author in authors_text.split(',') if author.strip()];
\* the entry as it is when the text does not begin with them.
WithAuthors(text, entry) ==
    With(SearchAtStart(author_pattern, {}, text), LAMBDA author_match :
        IF author_match.start < 0 THEN entry
        ELSE With(SplitOn(Strip(Pieces(author_match, text, 1, 1)), <<",">>), LAMBDA parts :
                 Set(entry, "authors",
                     PyList(SelectSeq([i \in 1..Len(parts) |-> PyStr(Strip(parts[i]))],
                                      LAMBDA author : author.v # <<>>)))))

\* match.group(n).strip() under key when the pattern matched, else the entry.
WithGroup(entry, key, match, text, n) ==
    IF match.start < 0 THEN entry
    ELSE Set(entry, key, PyStr(Strip(Pieces(match, text, n, n))))

\* The journal, volume, issue and pages of a journal article.
WithJournal(text, entry) ==
    With(Search(journal_pattern_issue, {}, text), LAMBDA with_issue :
    With(Search(journal_pattern_no_issue, {}, text), LAMBDA no_issue :
        IF with_issue.start >= 0 /\ (no_issue.start < 0 \/ with_issue.start <= no_issue.start)
        THEN PyDict(("journal" :> PyStr(Strip(Pieces(with_issue, text, 1, 2))))
                    @@ ("volume" :> PyStr(Pieces(with_issue, text, 5, 5)))
                    @@ ("issue" :> PyStr(Pieces(with_issue, text, 7, 7)))
                    @@ ("pages" :> PyStr(Strip(Pieces(with_issue, text, 11, 11))))
                    @@ entry.v)
        ELSE IF no_issue.start >= 0
        THEN PyDict(("journal" :> PyStr(Strip(Pieces(no_issue, text, 1, 2))))
                    @@ ("volume" :> PyStr(Pieces(no_issue, text, 5, 5)))
                    @@ ("issue" :> PyStr(<<>>))
                    @@ ("pages" :> PyStr(Strip(Pieces(no_issue, text, 8, 8))))
                    @@ entry.v)
        ELSE entry))

_parse_journal_entry(text, entry) ==
    WithJournal(text,
      WithAuthors(text,
        WithGroup(Set(entry, "type", PyStr(<<"j", "o", "u", "r", "n", "a", "l">>)), "title",
                  Search(journal_title_pattern, {}, text), text, 6)))

_parse_book_entry(text, entry) ==
    WithAuthors(text,
      WithGroup(Set(entry, "type", PyStr(<<"b", "o", "o", "k">>)), "title",
                Search(book_title_pattern, {}, text), text, 6))

\* The title of a generic entry: after the year and the next period; else
\* the text before the first period when it is longer than 10 characters
\* and has no parenthesis.
GenericTitle(text, entry) ==
    With(WithGroup(entry, "title", Search(generic_title_pattern, {4}, text), text, 7),
         LAMBDA titled :
    With(Find(text, <<".">>), LAMBDA first_period :
        IF titled.v["title"].v = <<>> /\ first_period > 0
              /\ Len(Strip(SubSeq(text, 1, first_period))) > 10
              /\ ~Contains(Strip(SubSeq(text, 1, first_period)), <<"(">>)
        THEN Set(entry, "title", PyStr(Strip(SubSeq(text, 1, first_period))))
        ELSE titled))

_parse_generic_entry(text, entry) == WithAuthors(text, GenericTitle(text, entry))

\* The entry _parse_single_entry starts from, and the year, DOI and URL.
NewEntry(entry_text) ==
    PyDict(("raw_text" :> PyStr(entry_text)) @@ ("title" :> PyStr(<<>>))
           @@ ("authors" :> PyList(<<>>)) @@ ("year" :> PyStr(<<>>))
           @@ ("journal" :> PyStr(<<>>)) @@ ("volume" :> PyStr(<<>>))
           @@ ("issue" :> PyStr(<<>>)) @@ ("pages" :> PyStr(<<>>)) @@ ("doi" :> PyStr(<<>>))
           @@ ("url" :> PyStr(<<>>)) @@ ("type" :> PyStr(<<"u", "n", "k", "n", "o", "w", "n">>)))

WithUrl(text, entry) ==
    With(Search(url_patterns[1], {}, text), LAMBDA https :
    With(Search(url_patterns[2], {}, text), LAMBDA http :
        IF https.start >= 0 /\ (http.start < 0 \/ https.start < http.start)
        THEN Set(entry, "url", PyStr(Pieces(https, text, 1, 2)))
        ELSE IF http.start >= 0 THEN Set(entry, "url", PyStr(Pieces(http, text, 1, 2)))
        ELSE entry))

WithYear(text, entry) ==
    With(Search(year_pattern, {}, text), LAMBDA year_match :
        IF year_match.start < 0 THEN entry
        ELSE Set(entry, "year", PyStr(Pieces(year_match, text, 2, 2))))

WithDoi(text, entry) ==
    With(Search(doi_pattern, {}, text), LAMBDA doi_match :
        IF doi_match.start < 0 THEN entry
        ELSE Set(entry, "doi", PyStr(Pieces(doi_match, text, 5, 5))))

\* _parse_single_entry(entry_text): the entry, or None when no title is found.
_parse_single_entry(entry_text) ==
    With(WithUrl(entry_text, WithDoi(entry_text, WithYear(entry_text, NewEntry(entry_text)))),
         LAMBDA entry :
    With(IF Contains(entry_text, <<"J", "o", "u", "r", "n", "a", "l">>) \/ Contains(Lower(entry_text), <<"j", "o", "u", "r", "n", "a", "l">>)
         THEN _parse_journal_entry(entry_text, entry)
         ELSE IF Contains(entry_text, <<"B", "o", "o", "k">>) \/ Contains(Lower(entry_text), <<"b", "o", "o", "k">>)
         THEN _parse_book_entry(entry_text, entry)
         ELSE _parse_generic_entry(entry_text, entry), LAMBDA parsed :
        IF Truthy(parsed.v["title"]) THEN parsed ELSE PyNone))

\* parsed_entries of parse_zotero_txt: the entries of the parts of the text
\* between blank lines that give one, in order.
ParsedEntries(file_content) ==
    With(SplitOn(Strip(file_content), <<"\n", "\n">>), LAMBDA parts :
        SelectSeq([i \in 1..Len(parts) |-> _parse_single_entry(Strip(parts[i]))],
                  LAMBDA entry : Truthy(entry)))

\* self.entries[title] = entry for the entries of parsed_entries in turn, on
\* the index as it is: a title the index holds keeps its place and takes the
\* new entry, a new title goes to the end.
TitleOf(entry) == Lower(Get(entry, "title", PyStr(<<>>)).v)
RECURSIVE IndexInto(_, _)
IndexInto(index, parsed_entries) ==
    IF parsed_entries = <<>> THEN index
    ELSE With([title |-> TitleOf(Head(parsed_entries)), entry |-> Head(parsed_entries)],
              LAMBDA item :
             IndexInto(IF item.title = <<>> THEN index
                       ELSE IF \E i \in 1..Len(index) : index[i].title = item.title
                       THEN [i \in 1..Len(index) |->
                               IF index[i].title = item.title THEN item ELSE index[i]]
                       ELSE Append(index, item),
                       Tail(parsed_entries)))
IndexOf(parsed_entries) == IndexInto(<<>>, parsed_entries)

\* Bibliography entries as Zotero exports them: two generic entries with the
\* same title, a journal article, a book and an entry without a year.
TextSurvey == <<"L", "e", "e", ",", " ", "K", ".", " ", "(", "2", "0", "2", "1", ")", ".", " ", "S", "u", "r", "v", "e", "y", " ", "R", "e", "s", "u", "l", "t", "s", ".">>
TextReprint == <<"L", "e", "e", ",", " ", "K", ".", " ", "(", "2", "0", "2", "3", ")", ".", " ", "S", "u", "r", "v", "e", "y", " ", "r", "e", "s", "u", "l", "t", "s", ".", " ", "R", "e", "v", "i", "s", "e", "d", ".">>
TextMethods == <<"M", "o", "s", "s", ",", " ", "T", ".", " ", "(", "2", "0", "1", "6", ")", ".", " ", "F", "i", "e", "l", "d", " ", "M", "e", "t", "h", "o", "d", "s", ".", " ", "J", "o", "u", "r", "n", "a", "l", " ", "o", "f", " ", "A", "I", ",", " ", "3", "(", "1", ")", ",", " ", "5", "-", "9", ".", " ", "d", "o", "i", ":", "1", "0", ".", "5", "/", "j">>
TextBook == <<"H", "a", "l", "e", ",", " ", "R", ".", " ", "(", "2", "0", "1", "2", ")", ".", " ", "R", "i", "v", "e", "r", "s", ".", " ", "A", "c", "m", "e", " ", "B", "o", "o", "k", "s", ".">>
TextNotes == <<"F", "i", "e", "l", "d", " ", "n", "o", "t", "e", "s", " ", "o", "n", " ", "r", "i", "v", "e", "r", "s", ".", " ", "h", "t", "t", "p", "s", ":", "/", "/", "x", ".", "o", "r", "g", "/", "n">>
\* The journal article of the example of the specification.
TextJones == <<"J", "o", "n", "e", "s", ",", " ", "A", ".", " ", "(", "2", "0", "1", "9", ")", ".", " ", "D", "e", "e", "p", " ", "L", "e", "a", "r", "n", "i", "n", "g", " ", "B", "a", "s", "i", "c", "s", ".", " ", "J", "o", "u", "r", "n", "a", "l", " ", "o", "f", " ", "A", "I", ",", " ", "5", "(", "2", ")", ",", " ", "1", "0", "0", "-", "1", "1", "0", ".">>
TextJunk == <<"Z", "o", "t", "e", "r", "o", " ", "e", "x", "p", "o", "r", "t">>
Blank == <<"\n", "\n">>

\* Contents of bibliography files: empty, without an entry, and with one to
\* three entries between blank lines.
BibFiles ==
    {<<>>,
     TextJunk \o <<"\n">>,
     TextSurvey,
     TextJones,
     TextMethods \o Blank \o TextSurvey,
     TextSurvey \o Blank \o TextReprint \o Blank \o TextBook,
     TextReprint \o Blank \o TextSurvey,
     TextBook \o Blank \o TextJunk \o Blank \o TextNotes,
     <<"\n">> \o TextMethods \o Blank \o <<"\n">> \o TextBook \o <<"\n">>}

\* The entries of a text depend on the text alone: for the files of the
\* model they are computed once and looked up afterwards.
ParseTable == [file_content \in BibFiles |-> ParsedEntries(file_content)]
Parsed(file_content) ==
    IF file_content \in DOMAIN ParseTable THEN ParseTable[file_content]
    ELSE ParsedEntries(file_content)

\* A variant that does not clear the index before it parses.
parse_zotero_txt_without_clear(ents, raws, file_content) ==
    [out |-> Len(Parsed(file_content)) > 0,
     entries |-> IndexInto(ents, Parsed(file_content)),
     raw_entries |-> Parsed(file_content)]

\* parse_zotero_txt(file_content) on a parser that holds the index ents and
\* the list raws: what it returns and what the parser holds afterwards. The
\* index and the list are cleared, the entries are indexed one by one and
\* the list is set to the entries parsed.
parse_zotero_txt(ents, raws, file_content) ==
    [out |-> Len(Parsed(file_content)) > 0,
     entries |-> IndexInto(<<>>, Parsed(file_content)),
     raw_entries |-> Parsed(file_content)]

-----------------------------------------------------------------------------
(* BibliographyParser.find_matching_entry                                  *)

\* BibliographyParser._titles_similar(title1, title2), threshold 0.6: the
\* share of the words of both titles that they have in common.
Words(title) ==
    With(Split(Lower(title)), LAMBDA words : {words[i] : i \in 1..Len(words)})
_titles_similar(title1, title2) ==
    With(Words(title1), LAMBDA words1 :
    With(Words(title2), LAMBDA words2 :
        /\ words1 # {}
        /\ words2 # {}
        /\ 10 * Cardinality(words1 \cap words2) >= 6 * Cardinality(words1 \cup words2)))

\* The least index of a set of indices, or 0 when there is none.
LeastOf(indices) == IF indices = {} THEN 0 ELSE Min(indices)

\* entry.get('authors', []) has an author that contains pdf_author or is
\* contained in it, case folded.
AuthorMatches(entry, pdf_author) ==
    \E i \in 1..Len(Get(entry, "authors", PyList(<<>>)).v) :
        With(Lower(Get(entry, "authors", PyList(<<>>)).v[i].v), LAMBDA author :
            Contains(pdf_author, author) \/ Contains(author, pdf_author))

\* BibliographyParser.find_matching_entry(pdf_filename, pdf_metadata) on the
\* index ents (pairs of title and entry in the order the titles were first
\* indexed) and the list raws: by the title of the metadata, by the words of
\* the filename, by the author of the metadata; None when nothing matches.
find_matching_entry(ents, raws, pdf_filename, pdf_metadata) ==
    With(Lower(Replace(Replace(Replace(pdf_filename.v, S_pdf, <<>>), <<"_">>, <<" ">>),
                       <<"-">>, <<" ">>)), LAMBDA filename_title :
    With(Strip(Lower(Field(pdf_metadata, "title").v)), LAMBDA pdf_title :
    With(LeastOf({i \in 1..Len(ents) : ents[i].title = pdf_title}), LAMBDA by_title :
    With(LeastOf({i \in 1..Len(ents) : _titles_similar(filename_title, ents[i].title)}),
         LAMBDA by_filename :
    With(Strip(Lower(Field(pdf_metadata, "author").v)), LAMBDA pdf_author :
    With(LeastOf({i \in 1..Len(raws) : AuthorMatches(raws[i], pdf_author)}), LAMBDA by_author :
        IF pdf_title # <<>> /\ by_title > 0 THEN ents[by_title].entry
        ELSE IF by_filename > 0 THEN ents[by_filename].entry
        ELSE IF pdf_author # <<>> /\ by_author > 0 THEN raws[by_author]
        ELSE PyNone))))))

-----------------------------------------------------------------------------
(* CitationProcessor: the authority with the library and the bibliography  *)

\* The keys _convert_bibliography_to_metadata copies under their own name.
SameNameFields ==
    {"title", "journal", "volume", "issue", "pages", "publisher", "doi", "url", "isbn",
     "issn", "editor", "edition", "place", "conference", "book_title", "series"}

\* _convert_bibliography_to_metadata(bib_entry): every key of the metadata
\* format, blank where the entry has no value.
_convert_bibliography_to_metadata(bib_entry) ==
    PyDict([k \in SameNameFields |-> Get(bib_entry, k, PyStr(<<>>))]
           @@ ("author" :> PyStr(Join(<<",", " ">>,
                   [i \in 1..Len(Get(bib_entry, "authors", PyList(<<>>)).v) |->
                      Get(bib_entry, "authors", PyList(<<>>)).v[i].v])))
           @@ ("creation_date" :> Get(bib_entry, "year", PyStr(<<>>)))
           @@ ("subject" :> Get(bib_entry, "journal", PyStr(<<>>))))

\* metadata.update(other)
Update(metadata, other) == PyDict(other.v @@ metadata.v)

\* Two documents of the library, in the order they were added, and a file the
\* library does not hold.
FileSurvey == PyStr(<<"s", "u", "r", "v", "e", "y", "_", "r", "e", "s", "u", "l", "t", "s", ".", "p", "d", "f">>)
FileNotes == PyStr(<<"M", "e", "t", "h", "o", "d", "_", "N", "o", "t", "e", "s", ".", "p", "d", "f">>)
ScoreDocs == <<FileSurvey, FileNotes>>

\* Metadata as _extract_metadata stores it, the fields the scoring reads:
\* every field a str, blank when the document does not give it.
ScoreMeta(title, author, journal, doi, publisher, year) ==
    PyDict(("title" :> PyStr(title)) @@ ("author" :> PyStr(author))
           @@ ("journal" :> PyStr(journal)) @@ ("doi" :> PyStr(doi))
           @@ ("publisher" :> PyStr(publisher)) @@ ("year" :> PyStr(year)))
MetaBlank == ScoreMeta(<<>>, <<>>, <<>>, <<>>, <<>>, <<>>)
MetaJournal2021 == ScoreMeta(<<>>, <<>>, <<"N", "a", "t", "u", "r", "e">>, <<>>, <<>>, <<"2", "0", "2", "1">>)
MetaRich ==
    ScoreMeta(<<"S", "u", "r", "v", "e", "y", "s">>, <<"K", "i", "m", " ", "L", "e", "e">>, <<"N", "a", "t", "u", "r", "e">>, <<"1", "0", ".", "1", "/", "x">>, <<"O", "x", "f", "o", "r", "d", " ", "U", "n", "i", "v", "e", "r", "s", "i", "t", "y", " ", "P", "r", "e", "s", "s">>, <<"1", "9", "9", "9">>)
MetaAuthor == ScoreMeta(<<>>, <<"L", "e", "e">>, <<>>, <<>>, <<>>, <<"n", ".", "d", ".">>)
MetaPress == ScoreMeta(<<"N", "o", "t", "e", "s">>, <<>>, <<>>, <<"1", "0", ".", "2", "/", "y">>, <<"A", "c", "m", "e", " ", "B", "o", "o", "k", "s">>, <<" ", "2", "0", "1", "2", " ">>)
ScoreMetas == {MetaBlank, MetaJournal2021, MetaRich, MetaAuthor, MetaPress}

\* The entries _parse_single_entry builds from TextSurvey (a generic entry)
\* and from TextMethods (a journal article: the authors split at the commas,
\* the journal from the first capital letter whose text up to a comma is
\* followed by a number), and the bibliographies parse_zotero_txt builds
\* with them.
BibEntry(raw_text, title, authors, year, journal, volume, issue, pages, doi, type) ==
    PyDict(("raw_text" :> PyStr(raw_text)) @@ ("title" :> PyStr(title))
           @@ ("authors" :> PyList(authors)) @@ ("year" :> PyStr(year))
           @@ ("journal" :> PyStr(journal)) @@ ("volume" :> PyStr(volume))
           @@ ("issue" :> PyStr(issue)) @@ ("pages" :> PyStr(pages)) @@ ("doi" :> PyStr(doi))
           @@ ("url" :> PyStr(<<>>)) @@ ("type" :> PyStr(type)))
EntrySurvey ==
    BibEntry(TextSurvey, <<"S", "u", "r", "v", "e", "y", " ", "R", "e", "s", "u", "l", "t", "s">>, <<PyStr(<<"L", "e", "e">>), PyStr(<<"K", ".">>)>>, <<"2", "0", "2", "1">>, <<>>, <<>>, <<>>,
             <<>>, <<>>, <<"u", "n", "k", "n", "o", "w", "n">>)
EntryMethods ==
    BibEntry(TextMethods, <<"F", "i", "e", "l", "d", " ", "M", "e", "t", "h", "o", "d", "s">>, <<PyStr(<<"M", "o", "s", "s">>), PyStr(<<"T", ".">>)>>, <<"2", "0", "1", "6">>,
             <<"T", ".", " ", "(", "2", "0", "1", "6", ")", ".", " ", "F", "i", "e", "l", "d", " ", "M", "e", "t", "h", "o", "d", "s", ".", " ", "J", "o", "u", "r", "n", "a", "l", " ", "o", "f", " ", "A", "I">>, <<"3">>, <<"1">>, <<"5", "-", "9">>, <<"1", "0", ".", "5", "/", "j">>, <<"j", "o", "u", "r", "n", "a", "l">>)
Bibliographies == {<<>>, <<EntrySurvey>>, <<EntryMethods, EntrySurvey>>}

\* find_matching_entry and the score are functions of their arguments alone:
\* for the documents, metadata and bibliographies of the model their results
\* are computed once and looked up afterwards.
ScoreFiles == {FileSurvey, FileNotes, FileA}
TableMetas ==
    ScoreMetas \cup {EmptyDict}
    \cup {Update(metadata, _convert_bibliography_to_metadata(entry)) :
            metadata \in ScoreMetas, entry \in {EntrySurvey, EntryMethods}}
MatchTable ==
    [k \in {<<IndexOf(parsed_entries), parsed_entries, filename, metadata>> :
              parsed_entries \in Bibliographies, filename \in ScoreFiles, metadata \in TableMetas}
       |-> find_matching_entry(k[1], k[2], k[3], k[4])]
ScoreTable ==
    [k \in (ClaimTypes \cup {UnknownType}) \X TableMetas \X ScoreFiles
       |-> AuthorityScore(k[1], k[2], k[3])]

\* bibliography_parser.find_matching_entry(filename, metadata) and the lines
\* that score the metadata, as _calculate_source_authority runs them.
MatchingEntry(ents, raws, filename, metadata) ==
    IF <<ents, raws, filename, metadata>> \in DOMAIN MatchTable
    THEN MatchTable[<<ents, raws, filename, metadata>>]
    ELSE find_matching_entry(ents, raws, filename, metadata)
Score(claim_type, metadata, filename) ==
    IF <<claim_type, metadata, filename>> \in DOMAIN ScoreTable
    THEN ScoreTable[<<claim_type, metadata, filename>>]
    ELSE AuthorityScore(claim_type, metadata, filename)

\* Lines 318-330 of _calculate_source_authority: the metadata of the stored
\* document, or {} for a filename the library does not hold; updated with the
\* converted entry when a bibliography parser is passed and an entry matches.
EnrichedMetadata(lib, ents, raws, filename, bibliography_parser) ==
    With(IF filename \in DOMAIN lib THEN lib[filename] ELSE EmptyDict, LAMBDA metadata :
    With(IF bibliography_parser THEN MatchingEntry(ents, raws, filename, metadata)
         ELSE PyNone, LAMBDA bib_entry :
        IF Truthy(bib_entry)
        THEN Update(metadata, _convert_bibliography_to_metadata(bib_entry))
        ELSE metadata))

\* The library after lines 318-330: update() works on the dict the library
\* holds for the document, so the stored metadata takes the update.
LibraryAfterScoring(lib, ents, raws, filename, bibliography_parser) ==
    IF filename \in DOMAIN lib
    THEN [lib EXCEPT ![filename] = EnrichedMetadata(lib, ents, raws, filename, bibliography_parser)]
    ELSE lib

\* _calculate_source_authority(source, claim_type, bibliography_parser): the
\* score it returns for the library and bibliography it finds.
_calculate_source_authority(lib, ents, raws, source, claim_type, bibliography_parser) ==
    With(Get(source, "filename", PyStr(<<>>)), LAMBDA filename :
        Score(claim_type, EnrichedMetadata(lib, ents, raws, filename, bibliography_parser),
              filename))

PyFloat(hundredths) == [t |-> "float", v |-> <<hundredths>>]
PyBool(b) == PyInt(IF b THEN 1 ELSE 0)

\* The chunks pdf_library.get_all_content() lists, one for each document of
\* docs, in the order the documents were added: the filename and the
\* metadata the library holds (page and text are inputs of the searches).
LibraryContent(lib, docs) == [i \in 1..Len(docs) |-> Source(docs[i], lib[docs[i]])]

\* np.argmax(similarities): the first index of the greatest similarity.
ArgMax(similarities) ==
    Min({i \in 1..Len(similarities) :
           \A j \in 1..Len(similarities) : similarities[j] <= similarities[i]})

\* _semantic_search: the chunk most similar to the claim when its similarity
\* is above 0.1, else None. The similarities come from the TF-IDF vectors of
\* the texts, outside the program; they are held in hundredths.
_semantic_search(library_content, similarities) ==
    IF library_content = <<>> THEN PyNone
    ELSE With(ArgMax(similarities), LAMBDA best_idx :
             IF similarities[best_idx] > 10 THEN library_content[best_idx] ELSE PyNone)

\* The library after the authority of the chunks at the indices of
\* candidate_indices was calculated, one after the other.
RECURSIVE LibraryAfterCandidates(_, _, _, _, _, _)
LibraryAfterCandidates(lib, ents, raws, docs, candidate_indices, bibliography_parser) ==
    IF candidate_indices = <<>> THEN lib
    ELSE LibraryAfterCandidates(
           LibraryAfterScoring(lib, ents, raws, docs[Head(candidate_indices)], bibliography_parser),
           ents, raws, docs, Tail(candidate_indices), bibliography_parser)

\* candidates_with_scores of _get_alternative_matches: for the chunks with a
\* similarity above 0.05, in order, the source and the combined score
\* similarity * 0.4 + authority * 0.6 (in ten-thousandths), the authority
\* calculated on the library as the candidates before left it.
RECURSIVE CandidatesWithScores(_, _, _, _, _, _, _, _)
CandidatesWithScores(lib, ents, raws, docs, similarities, candidate_indices, claim_type, bibliography_parser) ==
    IF candidate_indices = <<>> THEN <<>>
    ELSE With(Head(candidate_indices), LAMBDA idx :
         With(_calculate_source_authority(lib, ents, raws, LibraryContent(lib, docs)[idx],
                                          claim_type, bibliography_parser), LAMBDA authority_score :
             <<[source |-> Source(docs[idx], lib[docs[idx]]),
                similarity |-> similarities[idx],
                authority |-> authority_score,
                combined_score |-> similarities[idx] * 40 + authority_score * 60]>>
             \o CandidatesWithScores(
                  LibraryAfterScoring(lib, ents, raws, docs[idx], bibliography_parser),
                  ents, raws, docs, similarities, Tail(candidate_indices), claim_type,
                  bibliography_parser)))

\* list.sort(key=combined_score, reverse=True): descending, candidates of
\* equal score in the order they had.
RECURSIVE SortByCombined(_)
InsertByCombined(c, sorted) ==
    With(LeastOf({i \in 1..Len(sorted) : sorted[i].combined_score < c.combined_score}),
         LAMBDA at :
        IF at = 0 THEN Append(sorted, c)
        ELSE SubSeq(sorted, 1, at - 1) \o <<c>> \o SubSeq(sorted, at, Len(sorted)))
SortByCombined(candidates) ==
    IF candidates = <<>> THEN <<>>
    ELSE InsertByCombined(candidates[Len(candidates)],
                          SortByCombined(SubSeq(candidates, 1, Len(candidates) - 1)))

\* [i for i, sim in enumerate(similarities) if sim > 0.05], from 1.
CandidateIndices(similarities) ==
    SelectSeq([i \in 1..Len(similarities) |-> i], LAMBDA i : similarities[i] > 5)

\* _get_alternative_matches: the sources of the three candidates with the
\* greatest combined score.
_get_alternative_matches(lib, ents, raws, docs, similarities, claim_type, bibliography_parser) ==
    With(SortByCombined(CandidatesWithScores(lib, ents, raws, docs, similarities,
                                             CandidateIndices(similarities), claim_type,
                                             bibliography_parser)), LAMBDA candidates_with_scores :
        [i \in 1..Min({3, Len(candidates_with_scores)}) |-> candidates_with_scores[i].source])

\* The result of _find_supporting_content for the source it settled on (the
\* quote, the page and the citation text are left out), or None when
\* _extract_supporting_quote finds no quote.
SupportingContent(best_match, authority_score, quoted) ==
    IF quoted
    THEN PyDict(("source" :> Get(best_match, "filename", PyStr(<<>>)))
                @@ ("authority_score" :> PyFloat(authority_score)))
    ELSE PyNone

\* Lines 266-278 of _find_supporting_content, for a primary match that is not
\* appropriate: the first alternative when there is one, else the primary.
\* The record holds the result and the library as the scoring leaves it.
SupportFromAlternatives(lib, ents, raws, docs, similarities, claim_type, bibliography_parser, quoted, primary, authority_score) ==
    With(_get_alternative_matches(lib, ents, raws, docs, similarities, claim_type,
                                  bibliography_parser), LAMBDA alternative_matches :
    With(LibraryAfterCandidates(lib, ents, raws, docs, CandidateIndices(similarities),
                                bibliography_parser), LAMBDA scored :
        IF alternative_matches # <<>>
        THEN [out |-> SupportingContent(
                        alternative_matches[1],
                        _calculate_source_authority(scored, ents, raws, alternative_matches[1],
                                                    claim_type, bibliography_parser),
                        quoted),
              library |-> LibraryAfterScoring(scored, ents, raws,
                                              alternative_matches[1].v["filename"],
                                              bibliography_parser)]
        ELSE [out |-> SupportingContent(primary, authority_score, quoted),
              library |-> scored]))

\* _find_supporting_content(claim, pdf_library, bibliography_parser,
\* citation_formatter, claim_type), for the similarities of the chunks to the
\* claim and for whether a quote is found.
_find_supporting_content(lib, ents, raws, docs, similarities, claim_type, bibliography_parser, quoted) ==
    With(_semantic_search(LibraryContent(lib, docs), similarities), LAMBDA best_match :
        IF ~Truthy(best_match) THEN [out |-> PyNone, library |-> lib]
        ELSE
          With(_calculate_source_authority(lib, ents, raws, best_match, claim_type,
                                           bibliography_parser), LAMBDA authority_score :
          With(LibraryAfterScoring(lib, ents, raws, best_match.v["filename"],
                                   bibliography_parser), LAMBDA scored :
              IF _is_source_appropriate_for_claim_type(claim_type, authority_score)
              THEN [out |-> SupportingContent(best_match, authority_score, quoted),
                    library |-> scored]
              ELSE SupportFromAlternatives(scored, ents, raws, docs, similarities, claim_type,
                                           bibliography_parser, quoted, best_match,
                                           authority_score))))

\* The libraries of the model: the two documents with their metadata.
Libraries ==
    {(FileSurvey :> MetaJournal2021) @@ (FileNotes :> MetaBlank),
     (FileSurvey :> MetaRich) @@ (FileNotes :> MetaPress),
     (FileSurvey :> MetaBlank) @@ (FileNotes :> MetaAuthor),
     (FileSurvey :> MetaAuthor) @@ (FileNotes :> MetaRich),
     (FileSurvey :> MetaPress) @@ (FileNotes :> MetaJournal2021)}

\* The authority scores and the similarities the checks are given.
ScoreValues == {0, 39, 40, 41, 49, 50, 51, 54, 55, 56, 59, 60, 61, 64, 65, 66, 69, 70, 71, 100}
Similarities == {3, 8, 12}

\* The claim type and the bibliography parser process_paper passes on.
ArgClaimType == arg[1]
ArgBibliography == arg[2]

CalculateSourceAuthority(source) ==
    /\ call' = Called("_calculate_source_authority", <<source, ArgClaimType, ArgBibliography>>,
                      PyFloat(_calculate_source_authority(library, entries, raw_entries, source,
                                                          ArgClaimType, ArgBibliography)))
    /\ library' = LibraryAfterScoring(library, entries, raw_entries,
                                      Get(source, "filename", PyStr(<<>>)), ArgBibliography)
    /\ UNCHANGED <<style, citation_counter, citation_map, client, pdf_pages, entries,
                   raw_entries, run,
                   order, before, arg>>

IsSourceAppropriate(authority_score) ==
    /\ call' = Called("_is_source_appropriate_for_claim_type",
                      <<ArgClaimType, PyFloat(authority_score)>>,
                      PyBool(_is_source_appropriate_for_claim_type(ArgClaimType, authority_score)))
    /\ UNCHANGED <<style, citation_counter, citation_map, client, pdf_pages, library, entries,
                   raw_entries, run, order, before, arg>>

FindSupportingContent(similarities, quoted) ==
    LET found == _find_supporting_content(library, entries, raw_entries, ScoreDocs,
                                          similarities, ArgClaimType, ArgBibliography, quoted)
    IN  /\ call' = Called("_find_supporting_content",
                          <<library, ArgBibliography, ArgClaimType, similarities, quoted>>,
                          found.out)
        /\ library' = found.library
        /\ UNCHANGED <<style, citation_counter, citation_map, client, pdf_pages, entries,
                       raw_entries,
                       run, order, before, arg>>

\* A processor in a run of process_paper: the library and the bibliography
\* of the run, the type of the claim at hand and whether the run was given
\* the bibliography parser (a run without one has no entries to look at).
InitScore ==
    /\ style = "APA"
    /\ citation_counter = NewFormatter.counter
    /\ citation_map = NewFormatter.map
    /\ client = TRUE
    /\ library \in Libraries
    /\ pdf_pages = StoredPages(ScoreDocs)
    /\ \E parsed_entries \in Bibliographies :
         /\ entries = IndexOf(parsed_entries)
         /\ raw_entries = parsed_entries
    /\ run = NoRun
    /\ order = <<>>
    /\ before = <<>>
    /\ arg \in (ClaimTypes \cup {UnknownType}) \X BOOLEAN
    /\ arg[2] \/ raw_entries = <<>>
    /\ call = NoCall

NextScore ==
    \/ \E f \in {FileSurvey, FileNotes} : CalculateSourceAuthority(Source(f, library[f]))
    \/ CalculateSourceAuthority(Source(FileA, EmptyDict))
    \/ \E authority_score \in ScoreValues : IsSourceAppropriate(authority_score)
    \/ \E similarities \in [1..Len(ScoreDocs) -> Similarities], quoted \in BOOLEAN :
         FindSupportingContent(similarities, quoted)

\* The scoring of the sources of one claim.
SpecScore == InitScore /\ [][NextScore]_vars

\* C14: _is_source_appropriate_for_claim_type accepts a score exactly when it
\* is at or above the threshold of the claim type (FACTUAL 0.6, STATISTICAL
\* 0.65, THEORETICAL 0.55, METHODOLOGICAL 0.7, OPINION_INTERPRETATION 0.4,
\* 0.5 for any other type): a score equal to the threshold is accepted, a
\* score below it is rejected, and a score above an accepted one is accepted.
StatedThreshold(type) ==
    CASE type = "FACTUAL" -> 60
      [] type = "STATISTICAL" -> 65
      [] type = "THEORETICAL" -> 55
      [] type = "METHODOLOGICAL" -> 70
      [] type = "OPINION_INTERPRETATION" -> 40
      [] OTHER -> 50
CheckedType == call.args[1]
CheckedScore == call.args[2].v[1]
C14_AcceptsAtOrAboveThreshold ==
    call.op = "_is_source_appropriate_for_claim_type" =>
      /\ call.out = PyBool(CheckedScore >= StatedThreshold(CheckedType))
      /\ _is_source_appropriate_for_claim_type(CheckedType, StatedThreshold(CheckedType))
      /\ ~_is_source_appropriate_for_claim_type(CheckedType, StatedThreshold(CheckedType) - 1)
      /\ \A higher \in ScoreValues :
           (call.out = PyBool(TRUE) /\ higher >= CheckedScore) =>
             _is_source_appropriate_for_claim_type(CheckedType, higher)

\* A STATISTICAL claim and a score of exactly 0.65: accepted.
C14_Witness ==
    /\ call.op = "_is_source_appropriate_for_claim_type"
    /\ CheckedType = "STATISTICAL"
    /\ CheckedScore = 65
    /\ call.out = PyBool(TRUE)

\* C15 as stated: a claim type outside the five enumerated ones is treated as
\* FACTUAL by the threshold table, so that for every authority score the
\* check answers for it what it answers for FACTUAL.
C15_UnknownAsFactual ==
    (call.op = "_is_source_appropriate_for_claim_type" /\ CheckedType \notin ClaimTypes) =>
      call.out = PyBool(_is_source_appropriate_for_claim_type("FACTUAL", CheckedScore))

\* The source of the last call of _calculate_source_authority, the metadata
\* the call scored (what the library holds for the source after it, {} for a
\* source the library does not hold) and the score returned.
ScoredFile == Get(call.args[1], "filename", PyStr(<<>>))
ScoredMetadata == IF ScoredFile \in DOMAIN library THEN library[ScoredFile] ELSE EmptyDict
ScoredType == call.args[2]
ReturnedScore == call.out.v[1]

Present(key) == Field(ScoredMetadata, key).v # <<>>
YearWithin(from, to) ==
    /\ Present("year")
    /\ IsIntLiteral(Strip(Field(ScoredMetadata, "year").v))
    /\ IntVal(Strip(Field(ScoredMetadata, "year").v)) \in from..to
Named(terms) == \E term \in terms : Contains(Lower(ScoredFile.v), term)

\* The adjustments of each claim type: a condition and its hundredths, as the
\* scorer's table lists them (years are between 0 and 9999 in the model).
StatedAdjustments ==
    [FACTUAL |->
       <<<<Present("journal"), 20>>, <<Present("doi"), 10>>,
         <<Contains(Lower(Field(ScoredMetadata, "publisher").v), <<"u", "n", "i", "v", "e", "r", "s", "i", "t", "y">>), 10>>>>,
     STATISTICAL |->
       <<<<Present("journal"), 30>>,
         <<Named({<<"d", "a", "t", "a">>, <<"s", "t", "u", "d", "y">>, <<"s", "u", "r", "v", "e", "y">>, <<"a", "n", "a", "l", "y", "s", "i", "s">>}), 20>>,
         <<YearWithin(2015, 9999), 10>>>>,
     THEORETICAL |->
       <<<<Present("journal"), 20>>,
         <<YearWithin(0, 2000), 10>>,
         <<YearWithin(2010, 9999), 5>>,
         <<Named({<<"t", "h", "e", "o", "r", "y">>, <<"f", "r", "a", "m", "e", "w", "o", "r", "k">>, <<"m", "o", "d", "e", "l">>, <<"c", "o", "n", "c", "e", "p", "t">>}), 15>>>>,
     METHODOLOGICAL |->
       <<<<Present("journal"), 30>>,
         <<Named({<<"m", "e", "t", "h", "o", "d">>, <<"p", "r", "o", "c", "e", "d", "u", "r", "e">>, <<"p", "r", "o", "t", "o", "c", "o", "l">>, <<"t", "e", "c", "h", "n", "i", "q", "u", "e">>}), 20>>,
         <<Present("doi"), 10>>>>,
     OPINION_INTERPRETATION |->
       <<<<YearWithin(2018, 9999), 15>>,
         <<Present("journal"), 10>>,
         <<Named({<<"a", "n", "a", "l", "y", "s", "i", "s">>, <<"p", "e", "r", "s", "p", "e", "c", "t", "i", "v", "e">>, <<"d", "i", "s", "c", "u", "s", "s", "i", "o", "n">>, <<"r", "e", "v", "i", "e", "w">>}), 10>>>>]

RECURSIVE SumApplicable(_)
SumApplicable(adjustments) ==
    IF adjustments = <<>> THEN 0
    ELSE (IF Head(adjustments)[1] THEN Head(adjustments)[2] ELSE 0)
         + SumApplicable(Tail(adjustments))

StatedSum ==
    50 + (IF ScoredType \in DOMAIN StatedAdjustments
          THEN SumApplicable(StatedAdjustments[ScoredType]) ELSE 0)
       + (IF Present("author") THEN 5 ELSE 0) + (IF Present("title") THEN 5 ELSE 0)

\* C16: _calculate_source_authority returns min(1.0, 0.5 + the adjustments of
\* the claim type that apply + 0.05 for an author + 0.05 for a title), which
\* lies in [0, 1]; for a STATISTICAL claim and survey_results.pdf with a
\* journal and the year 2021 it returns 1.0, which passes the threshold 0.65.
C16_ScoreIsCappedSum ==
    call.op = "_calculate_source_authority" =>
      /\ ReturnedScore = IF StatedSum < 100 THEN StatedSum ELSE 100
      /\ ReturnedScore \in 0..100
      /\ (/\ ScoredType = "STATISTICAL"
          /\ ScoredFile = FileSurvey
          /\ Present("journal")
          /\ Field(ScoredMetadata, "year") = PyStr(<<"2", "0", "2", "1">>)) =>
           /\ ReturnedScore = 100
           /\ _is_source_appropriate_for_claim_type("STATISTICAL", ReturnedScore)

\* The example: survey_results.pdf, published in Nature in 2021, scored for a
\* STATISTICAL claim, where the sum without the cap is 1.1.
C16_Witness ==
    /\ call.op = "_calculate_source_authority"
    /\ ScoredType = "STATISTICAL"
    /\ ScoredFile = FileSurvey
    /\ ScoredMetadata = MetaJournal2021
    /\ StatedSum = 110
    /\ ReturnedScore = 100

\* The metadata of the source as the last call of _calculate_source_authority
\* found it, the entry that matches it, and the metadata with only its blank
\* fields filled from the entry.
DocumentMetadata == Get(call.args[1], "metadata", EmptyDict)
MatchedEntry ==
    IF call.args[3] THEN find_matching_entry(entries, raw_entries, ScoredFile, DocumentMetadata)
    ELSE PyNone
BlanksFilled(metadata, other) ==
    PyDict([k \in DOMAIN metadata.v \cup DOMAIN other.v |->
              IF k \in DOMAIN metadata.v /\ (Truthy(metadata.v[k]) \/ k \notin DOMAIN other.v)
              THEN metadata.v[k]
              ELSE other.v[k]])

\* C17 as stated: with a matching bibliography entry the score is the score of
\* the document's metadata with only its blank fields filled from the entry;
\* a field that is not blank in the document keeps its value and earns its
\* adjustment, also when the entry has no value for it.
C17_OnlyBlankFieldsFilled ==
    (call.op = "_calculate_source_authority" /\ Truthy(MatchedEntry)) =>
      /\ \A k \in DOMAIN DocumentMetadata.v :
           Truthy(DocumentMetadata.v[k]) => ScoredMetadata.v[k] = DocumentMetadata.v[k]
      /\ ReturnedScore =
           AuthorityScore(ScoredType,
                          BlanksFilled(DocumentMetadata,
                                       _convert_bibliography_to_metadata(MatchedEntry)),
                          ScoredFile)

\* The last call of _find_supporting_content: the library it was given, the
\* primary match of the semantic search, the candidates for an alternative
\* with their authority, and the source of the result.
SearchedLibrary == call.args[1]
SearchedSimilarities == call.args[4]
PrimaryMatch == _semantic_search(LibraryContent(SearchedLibrary, ScoreDocs), SearchedSimilarities)
PrimaryAuthority ==
    _calculate_source_authority(SearchedLibrary, entries, raw_entries, PrimaryMatch, call.args[3],
                                call.args[2])
AlternativeCandidates ==
    CandidatesWithScores(
      LibraryAfterScoring(SearchedLibrary, entries, raw_entries, PrimaryMatch.v["filename"],
                          call.args[2]),
      entries, raw_entries, ScoreDocs, SearchedSimilarities,
      CandidateIndices(SearchedSimilarities), call.args[3], call.args[2])
PrimaryFails ==
    /\ call.op = "_find_supporting_content"
    /\ Truthy(PrimaryMatch)
    /\ ~_is_source_appropriate_for_claim_type(call.args[3], PrimaryAuthority)
NoAlternativeQualifies ==
    \A i \in 1..Len(AlternativeCandidates) :
        ~_is_source_appropriate_for_claim_type(call.args[3], AlternativeCandidates[i].authority)

\* C18 as stated: when the primary match fails the appropriateness check and
\* no alternative reaches the threshold of the claim type, the source cited is
\* the primary match, not another candidate; and a claim with a primary match
\* and a quote is never left without a source.
C18_PrimaryWhenNoAlternativeQualifies ==
    /\ (PrimaryFails /\ NoAlternativeQualifies /\ Truthy(call.out)) =>
         call.out.v["source"] = PrimaryMatch.v["filename"]
    /\ (call.op = "_find_supporting_content" /\ Truthy(PrimaryMatch) /\ call.args[5]) =>
         Truthy(call.out)

\* The last call is a process_paper of a processor without a client.
RanWithoutClient == call.op = "process_paper" /\ ~client

\* C19: without a client process_paper returns the pass-through: the cited
\* text is the text it was given, the citation list and the references are
\* empty, the statistics are all zero and the error is marked; the call leaves
\* the numbering of the formatter, the library and the bibliography as they
\* were.
C19_PassThroughWithoutClient ==
    /\ [](RanWithoutClient =>
            /\ Get(call.out, "cited_text", PyNone) = call.args[1]
            /\ Get(call.out, "citations", PyNone) = PyList(<<>>)
            /\ Get(call.out, "references", PyNone) = PyStr(<<>>)
            /\ \A k \in {"claims_identified", "citations_added", "sources_used"} :
                 Get(Get(call.out, "stats", EmptyDict), k, PyNone) = PyInt(0)
            /\ Truthy(Get(call.out, "error", PyNone))
            /\ citation_counter = call.pre.counter
            /\ citation_map = call.pre.map)
    /\ [][(~client /\ call'.op = "process_paper") =>
            UNCHANGED <<citation_counter, citation_map, library, entries, raw_entries>>]_vars

\* A processor without a client, given a paper and a formatter that has
\* numbered a source: the text comes back and the number stays.
C19_Witness ==
    /\ RanWithoutClient
    /\ call.args[1] = PyStr(<<"R", "i", "v", "e", "r", "s", " ", "f", "l", "o", "o", "d", ".">>)
    /\ Get(call.out, "cited_text", PyNone) = PyStr(<<"R", "i", "v", "e", "r", "s", " ", "f", "l", "o", "o", "d", ".">>)
    /\ citation_map = (FileB :> 1)
    /\ library = Library
    /\ pdf_pages = StoredPages(<<FileA, FileB>>)

-----------------------------------------------------------------------------
(* BibliographyParser: uploads of a bibliography and look-ups in it        *)

\* parse_zotero_txt(file_content); before keeps the index and the list the
\* call found.
ParseZoteroTxt(file_content) ==
    /\ call' = Called("parse_zotero_txt", <<PyStr(file_content)>>,
                      PyBool(parse_zotero_txt(entries, raw_entries, file_content).out))
    /\ entries' = parse_zotero_txt(entries, raw_entries, file_content).entries
    /\ raw_entries' = parse_zotero_txt(entries, raw_entries, file_content).raw_entries
    /\ before' = <<entries, raw_entries>>
    /\ UNCHANGED <<style, citation_counter, citation_map, client, pdf_pages, library, run,
                   order, arg>>

\* find_matching_entry(pdf_filename, pdf_metadata)
FindMatchingEntry(pdf_filename, pdf_metadata) ==
    /\ call' = Called("find_matching_entry", <<pdf_filename, pdf_metadata>>,
                      MatchingEntry(entries, raw_entries, pdf_filename, pdf_metadata))
    /\ UNCHANGED <<style, citation_counter, citation_map, client, pdf_pages, library, entries,
                   raw_entries, run, order, before, arg>>

\* A new BibliographyParser, beside a new processor.
InitBib ==
    /\ style = "APA"
    /\ citation_counter = NewFormatter.counter
    /\ citation_map = NewFormatter.map
    /\ client = TRUE
    /\ library = Library
    /\ pdf_pages = StoredPages(<<FileA, FileB>>)
    /\ entries = <<>>
    /\ raw_entries = <<>>
    /\ run = NoRun
    /\ order = <<>>
    /\ before = <<>>
    /\ arg = <<>>
    /\ call = NoCall

NextBib ==
    \/ \E file_content \in BibFiles : ParseZoteroTxt(file_content)
    \/ \E pdf_filename \in ScoreFiles, pdf_metadata \in ScoreMetas :
         FindMatchingEntry(pdf_filename, pdf_metadata)

\* The uploads of bibliography files, one after the other.
SpecBib == InitBib /\ [][NextBib]_vars

\* C20: parse_zotero_txt replaces what the parser holds: after it the title
\* index and the list of entries are what the same text gives on a new
\* parser, whatever was parsed before, and it returns what the new parser
\* returns; a text that yields no entry leaves both empty and returns False;
\* parsing the same text once more leaves the same index and list.
ParsedText == call.args[1].v
OnNewParser == parse_zotero_txt(<<>>, <<>>, ParsedText)
YieldsNoEntry ==
    \A i \in 1..Len(SplitOn(Strip(ParsedText), Blank)) :
        _parse_single_entry(Strip(SplitOn(Strip(ParsedText), Blank)[i])) = PyNone
C20_ParseReplaces ==
    call.op = "parse_zotero_txt" =>
        /\ entries = OnNewParser.entries
        /\ raw_entries = OnNewParser.raw_entries
        /\ call.out = PyBool(OnNewParser.out)
        /\ YieldsNoEntry => entries = <<>> /\ raw_entries = <<>> /\ call.out = PyBool(FALSE)
        /\ parse_zotero_txt(entries, raw_entries, ParsedText).entries = entries
        /\ parse_zotero_txt(entries, raw_entries, ParsedText).raw_entries = raw_entries

\* A bibliography was parsed on a parser that held entries under other titles.
C20_Witness ==
    /\ call.op = "parse_zotero_txt"
    /\ before # <<>>
    /\ raw_entries # <<>>
    /\ \E i \in 1..Len(before[1]) :
         \A j \in 1..Len(raw_entries) : TitleOf(raw_entries[j]) # before[1][i].title

\* C21 as stated: "Jones, A. (2019). Deep Learning Basics. Journal of AI,
\* 5(2), 100-110." parses to one entry with the authors ["Jones, A."], the
\* year "2019", the title "Deep Learning Basics", the journal "Journal of
\* AI", the volume "5", the issue "2", the pages "100-110" and the type
\* journal.
C21_JonesExample ==
    (call.op = "parse_zotero_txt" /\ ParsedText = TextJones) =>
        /\ Len(raw_entries) = 1
        /\ raw_entries[1].v["authors"] = PyList(<<PyStr(<<"J", "o", "n", "e", "s", ",", " ", "A", ".">>)>>)
        /\ raw_entries[1].v["year"] = PyStr(<<"2", "0", "1", "9">>)
        /\ raw_entries[1].v["title"] = PyStr(<<"D", "e", "e", "p", " ", "L", "e", "a", "r", "n", "i", "n", "g", " ", "B", "a", "s", "i", "c", "s">>)
        /\ raw_entries[1].v["journal"] = PyStr(<<"J", "o", "u", "r", "n", "a", "l", " ", "o", "f", " ", "A", "I">>)
        /\ raw_entries[1].v["volume"] = PyStr(<<"5">>)
        /\ raw_entries[1].v["issue"] = PyStr(<<"2">>)
        /\ raw_entries[1].v["pages"] = PyStr(<<"1", "0", "0", "-", "1", "1", "0">>)
        /\ raw_entries[1].v["type"] = PyStr(<<"j", "o", "u", "r", "n", "a", "l">>)

-----------------------------------------------------------------------------
(* PDFLibrary                                                              *)
(* library holds the metadata of each stored document and pdf_pages its    *)
(* filename and pages, in the order the documents were added. Of the       *)
(* metadata the model holds 'authors' and 'author'; the other fields come  *)
(* from extraction functions that do not read or write these two.          *)

\* The elements of a set of numbers in ascending order.
Ascending(S) == [n \in 1..Cardinality(S) |-> CHOOSE x \in S : Cardinality({y \in S : y < x}) = n - 1]

\* [part.strip() for part in parts if part.strip()]
StrippedParts(parts) ==
    SelectSeq([i \in 1..Len(parts) |-> Strip(parts[i])], LAMBDA part : part # <<>>)

\* _parse_authors: the parts at the first delimiter of the list that the
\* string contains, or the string itself.
delimiters == <<<<";">>, <<",">>, <<" ", "a", "n", "d", " ">>, <<" ", "&", " ">>, <<"\n">>>>
SplitAuthors(author_string) ==
    With(LeastOf({d \in 1..Len(delimiters) : Contains(author_string, delimiters[d])}), LAMBDA d :
    With(IF d = 0 THEN <<>> ELSE StrippedParts(SplitOn(author_string, delimiters[d])),
         LAMBDA authors :
        IF authors = <<>> THEN <<Strip(author_string)>> ELSE authors))

\* re.sub(r'\([^)]*\)', '', s) and re.sub(r'<[^>]*>', '', s): every stretch
\* from an opening character to the next closing one is removed.
RECURSIVE RemoveBracketed(_, _, _)
RemoveBracketed(s, opening, closing) ==
    With(Find(s, <<opening>>), LAMBDA i :
        IF i < 0 THEN s
        ELSE With(Find(From(s, i + 1), <<closing>>), LAMBDA j :
                 IF j < 0 THEN s
                 ELSE SubSeq(s, 1, i) \o RemoveBracketed(From(s, i + j + 2), opening, closing)))

\* PDFLibrary._parse_authors(author_string)
_parse_authors(author_string) ==
    IF author_string = <<>> THEN <<>>
    ELSE With(SplitAuthors(author_string), LAMBDA authors :
             SelectSeq([i \in 1..Len(authors) |->
                          Strip(RemoveBracketed(RemoveBracketed(authors[i], "(", ")"), "<", ">"))],
                       LAMBDA author : Len(author) > 2))

\* re.sub(r'^.*?(author|by)\s*:?\s*', '', line, flags=re.IGNORECASE) of a
\* line that holds one of the two words: the line after the first of them
\* and the spaces and colon that follow it.
SkipSpaces(s, i) == Max(Ends(Spaces, s, i))
AfterKeyword(line) ==
    With(Min({i \in 0..Len(line) : \/ StartsWith(From(Lower(line), i), <<"a", "u", "t", "h", "o", "r">>)
                                   \/ StartsWith(From(Lower(line), i), <<"b", "y">>)}), LAMBDA at :
    With(SkipSpaces(line, at + (IF StartsWith(From(Lower(line), at), <<"a", "u", "t", "h", "o", "r">>) THEN 6 ELSE 2)),
         LAMBDA i :
        From(line, SkipSpaces(line, IF i < Len(line) /\ line[i + 1] = ":" THEN i + 1 ELSE i))))

\* name_pattern of _extract_authors_from_text:
\* r'([A-Z][a-z]+ [A-Z][a-z]+(?:,\s*[A-Z][a-z]+ [A-Z][a-z]+)*)'
Lowercase == Cls({c \in Chars : Ord[c] >= 97 /\ Ord[c] <= 122})
FirstLast == Cat(<<Uppercase, Plus(Lowercase), Lit(" "), Uppercase, Plus(Lowercase)>>)
name_pattern == Cat(<<FirstLast, Star(Cat(<<Lit(","), Spaces, FirstLast>>))>>)

\* re.findall(name_pattern, line): the matches from left to right, each the
\* longest from its start.
RECURSIVE FindAllNames(_)
FindAllNames(line) ==
    With({i \in 0..Len(line) : Ends(name_pattern, line, i) # {}}, LAMBDA starts :
        IF starts = {} THEN <<>>
        ELSE With(Max(Ends(name_pattern, line, Min(starts))), LAMBDA end :
                 <<SubSeq(line, Min(starts) + 1, end)>> \o FindAllNames(From(line, end))))

\* The concatenation of the lists of a list.
RECURSIVE Concat(_)
Concat(lists) == IF lists = <<>> THEN <<>> ELSE Head(lists) \o Concat(Tail(lists))

\* The authors one line of the text adds: those after 'author' or 'by', then
\* those of the names found.
AuthorsOfLine(line) ==
    IF Len(line) < 3 THEN <<>>
    ELSE (IF Contains(Lower(line), <<"a", "u", "t", "h", "o", "r">>) \/ Contains(Lower(line), <<"b", "y", " ">>)
          THEN _parse_authors(AfterKeyword(line)) ELSE <<>>)
         \o With(SelectSeq(FindAllNames(line), LAMBDA match : Len(match) > 5 /\ Len(match) < 100),
                 LAMBDA matches : Concat([i \in 1..Len(matches) |-> _parse_authors(matches[i])]))

\* PDFLibrary._extract_authors_from_text(text): of the first 20 lines, without
\* duplicates, at most 10.
_extract_authors_from_text(text) ==
    IF text = <<>> THEN <<>>
    ELSE With(StrippedParts(SplitOn(text, <<"\n">>)), LAMBDA lines :
         With(Concat([i \in 1..Min({20, Len(lines)}) |-> AuthorsOfLine(lines[i])]), LAMBDA authors :
         With(SelectSeq([i \in 1..Len(authors) |-> i],
                        LAMBDA i : Len(authors[i]) > 2
                                   /\ \A j \in 1..(i - 1) : authors[j] # authors[i]),
              LAMBDA unique :
             [n \in 1..Min({10, Len(unique)}) |-> authors[unique[n]]])))

\* first_pages_text of _extract_text_based_metadata: the text of the first
\* three pages, a newline after each.
first_pages_text(page_texts) ==
    Concat([i \in 1..Min({3, Len(page_texts)}) |->
              IF page_texts[i] = <<>> THEN <<>> ELSE page_texts[i] \o <<"\n">>])

\* len(str(authors)) for a list of names without quotes or backslashes.
ReprLen(authors) ==
    IF authors = <<>> THEN 2
    ELSE 2 + Len(Join(<<",", " ">>, [i \in 1..Len(authors) |-> <<"'">> \o authors[i] \o <<"'">>]))

\* _merge_metadata, the keys 'authors' and 'author': the authors of the text
\* replace those of the properties when there are none or their str is
\* longer; the author is set from the authors when it is blank.
_merge_metadata(pdf_metadata, text_authors) ==
    With(IF text_authors # <<>>
            /\ (pdf_metadata.authors = <<>> \/ ReprLen(text_authors) > ReprLen(pdf_metadata.authors))
         THEN text_authors ELSE pdf_metadata.authors, LAMBDA authors :
        [authors |-> authors,
         author |-> IF authors # <<>> /\ pdf_metadata.author = <<>>
                    THEN Join(<<",", " ">>, authors) ELSE pdf_metadata.author])

\* _extract_metadata(pdf_reader), the keys 'authors' and 'author': from the
\* /Author property of the document when it has properties, merged with the
\* authors of the text.
_extract_metadata(pdf_reader) ==
    With(IF Truthy(pdf_reader.metadata)
         THEN Strip(Get(pdf_reader.metadata, "/Author", PyStr(<<>>)).v) ELSE <<>>,
         LAMBDA raw_author :
    With(_merge_metadata([authors |-> IF raw_author # <<>> THEN _parse_authors(raw_author)
                                      ELSE <<>>,
                          author |-> raw_author],
                         _extract_authors_from_text(first_pages_text(pdf_reader.pages))),
         LAMBDA merged :
        PyDict(("authors" :> PyList([i \in 1..Len(merged.authors) |-> PyStr(merged.authors[i])]))
               @@ ("author" :> PyStr(merged.author)))))

\* re.split(r'[.!?]+', text): the parts between the runs of the three marks.
SentenceMarks == {".", "!", "?"}
SplitSentences(text) ==
    With(Ascending({1} \cup {i \in 2..(Len(text) + 1) :
                               /\ text[i - 1] \in SentenceMarks
                               /\ (i = Len(text) + 1 \/ text[i] \notin SentenceMarks)}),
         LAMBDA starts :
        [n \in 1..Len(starts) |->
           SubSeq(text, starts[n],
                  Min({j \in starts[n]..(Len(text) + 1) :
                         j = Len(text) + 1 \/ text[j] \in SentenceMarks}) - 1)])

\* The loop of _split_into_chunks over the sentences from the n-th on, with
\* the chunks and the current chunk so far.
RECURSIVE ChunksFrom(_, _, _, _, _)
ChunksFrom(sentences, n, chunks, current_chunk, chunk_size) ==
    IF n > Len(sentences)
    THEN (IF Strip(current_chunk) # <<>> THEN Append(chunks, Strip(current_chunk)) ELSE chunks)
    ELSE With(Strip(sentences[n]), LAMBDA sentence :
             IF sentence = <<>>
             THEN ChunksFrom(sentences, n + 1, chunks, current_chunk, chunk_size)
             ELSE IF Len(current_chunk) + Len(sentence) > chunk_size /\ current_chunk # <<>>
             THEN ChunksFrom(sentences, n + 1, Append(chunks, Strip(current_chunk)), sentence,
                             chunk_size)
             ELSE ChunksFrom(sentences, n + 1, chunks,
                             IF current_chunk # <<>> THEN current_chunk \o <<" ">> \o sentence
                             ELSE sentence, chunk_size))

\* PDFLibrary._split_into_chunks(text, chunk_size)
chunk_size == 500
_split_into_chunks(text) == ChunksFrom(SplitSentences(text), 1, <<>>, <<>>, chunk_size)

\* The entries get_all_content adds for one page of a document.
ContentOfPage(filename, page_data, metadata, chunks) ==
    With(SelectSeq(chunks, LAMBDA chunk : Len(Strip(chunk)) > 50), LAMBDA listed :
        [i \in 1..Len(listed) |->
           [filename |-> filename, page |-> page_data.page, text |-> listed[i],
            metadata |-> metadata]])

\* _extract_context(text, query, context_length)
context_length == 200
_extract_context(text, query) ==
    With(Find(Lower(text), Lower(query)), LAMBDA match_pos :
        IF match_pos < 0 THEN SubSeq(text, 1, Min({Len(text), context_length * 2}))
        ELSE With(Max({0, match_pos - context_length}), LAMBDA start :
             With(Min({Len(text), match_pos + Len(query) + context_length}), LAMBDA end :
                 (IF start > 0 THEN <<".", ".", ".">> ELSE <<>>)
                 \o SubSeq(text, start + 1, end)
                 \o (IF end < Len(text) THEN <<".", ".", ".">> ELSE <<>>))))

\* The pages of the stored documents in the order the loops of
\* get_all_content and search_content visit them.
PagesInOrder(pages) ==
    Concat([d \in 1..Len(pages) |->
              [p \in 1..Len(pages[d].pages) |->
                 [filename |-> pages[d].filename, page_data |-> pages[d].pages[p]]]])

\* The loops of search_content from the n-th page on: a page that holds the
\* query adds a result, and the search returns when the results have
\* reached max_results.
RECURSIVE SearchFrom(_, _, _, _, _, _)
SearchFrom(lib, visited, n, query, max_results, results) ==
    IF n > Len(visited) THEN results
    ELSE IF Contains(Lower(visited[n].page_data.text), Lower(query))
    THEN With(Append(results,
                     [filename |-> visited[n].filename, page |-> visited[n].page_data.page,
                      text |-> _extract_context(visited[n].page_data.text, query),
                      metadata |-> lib[visited[n].filename]]), LAMBDA added :
             IF Len(added) >= max_results THEN added
             ELSE SearchFrom(lib, visited, n + 1, query, max_results, added))
    ELSE SearchFrom(lib, visited, n + 1, query, max_results, results)

\* PDFLibrary.search_content(query, max_results)
search_content(lib, pages, query, max_results) ==
    SearchFrom(lib, PagesInOrder(pages), 1, query, max_results, <<>>)

\* content_by_page of add_pdf: the pages with text, numbered as in the
\* document, their text stripped.
content_by_page(page_texts) ==
    SelectSeq([i \in 1..Len(page_texts) |-> [page |-> i, text |-> Strip(page_texts[i])]],
              LAMBDA page_data : page_data.text # <<>>)

\* self.library[name] = value for the order of the filenames: a filename the
\* library holds keeps its place.
Stored(pages, filename, content) ==
    IF \E d \in 1..Len(pages) : pages[d].filename = filename
    THEN [d \in 1..Len(pages) |->
            IF pages[d].filename = filename THEN [filename |-> filename, pages |-> content]
            ELSE pages[d]]
    ELSE Append(pages, [filename |-> filename, pages |-> content])

\* del self.library[filename]
Removed(pages, filename) == SelectSeq(pages, LAMBDA d : d.filename # filename)
Without(lib, filename) == [f \in DOMAIN lib \ {filename} |-> lib[f]]

\* Pages of documents: one sentence of 49, of 50 and of 51 characters before
\* its mark, nine sentences of 60 characters, and two pages that name
\* authors in their first lines.
Page49 == <<"T", "h", "e", " ", "r", "i", "v", "e", "r", " ", "r", "o", "s", "e", " ", "t", "w", "o", " ", "t", "h", "i", "r", "d", "s", " ", "o", "v", "e", "r", " ", "t", "h", "e", " ", "s", "p", "r", "i", "n", "g", " ", "o", "f", " ", "1", "9", "9", "8", ".">>
Page50 == <<"T", "h", "e", " ", "f", "l", "o", "o", "d", "s", " ", "o", "f", " ", "t", "h", "a", "t", " ", "y", "e", "a", "r", " ", "c", "o", "v", "e", "r", "e", "d", " ", "m", "o", "s", "t", " ", "o", "f", " ", "t", "h", "e", " ", "p", "l", "a", "i", "n", "s", ".">>
Page51 == <<"W", "e", "t", " ", "f", "i", "e", "l", "d", "s", " ", "s", "t", "a", "y", " ", "c", "l", "o", "s", "e", "d", " ", "t", "o", " ", "t", "h", "e", " ", "h", "e", "r", "d", "s", " ", "f", "o", "r", " ", "s", "e", "v", "e", "n", " ", "w", "e", "e", "k", "s", "!">>
Sentence60 == <<"t", "h", "e", " ", "g", "a", "u", "g", "e", "s", " ", "a", "l", "o", "n", "g", " ", "t", "h", "e", " ", "l", "o", "w", "e", "r", " ", "r", "i", "v", "e", "r", " ", "w", "e", "r", "e", " ", "r", "e", "a", "d", " ", "t", "w", "i", "c", "e", " ", "a", " ", "d", "a", "y", " ", "t", "h", "e", "r", "e">>
PageLong == Concat([i \in 1..9 |-> Sentence60 \o <<".", " ">>])
PageNotes == <<"n", "o", "t", "e", "s", " ", "o", "n", " ", "t", "h", "e", " ", "f", "l", "o", "o", "d", "s", " ", "o", "f", " ", "t", "h", "e", " ", "l", "o", "w", "e", "r", " ", "r", "i", "v", "e", "r", ",", " ", "t", "a", "k", "e", "n", " ", "i", "n", " ", "t", "h", "e", " ", "f", "i", "e", "l", "d", " ", "o", "v", "e", "r", " ", "t", "w", "o", " ", "y", "e", "a", "r", "s", ".">>
PageBy == <<"F", "i", "e", "l", "d", " ", "n", "o", "t", "e", "s", "\n", "B", "y", " ", "A", "n", "n", " ", "P", "o", "e", ",", " ", "B", "o", "b", " ", "R", "o", "e", "\n">> \o PageNotes
PageAuthors == <<"A", "u", "t", "h", "o", "r", "s", ":", " ", "A", "n", "n", " ", "P", "o", "e", " ", "a", "n", "d", " ", "B", "o", "b", " ", "R", "o", "e", "\n">> \o PageNotes
PageTexts == {Page49, Page50, Page51, PageLong, PageBy, PageAuthors, PageOne}

\* Uploaded files as PyPDF2 reads them: the name, the document properties
\* (none, or an /Author) and the text of each page.
PdfFile(name, author, page_texts) ==
    [name |-> name,
     metadata |-> IF author = <<>> THEN EmptyDict ELSE PyDict("/Author" :> PyStr(author)),
     pages |-> page_texts]
PdfFiles ==
    {PdfFile(FileSurvey, <<"K", "i", "m", " ", "L", "e", "e", ";", " ", "J", "o", " ", "P", "a", "r", "k">>, <<Page49, Page50, Page51>>),
     PdfFile(FileSurvey, <<>>, <<PageAuthors, Page50>>),
     PdfFile(FileNotes, <<"J", "a", "n", "e", " ", "D", "o", "e">>, <<<<" ", " ">>, PageBy>>),
     PdfFile(FileNotes, <<>>, <<PageLong>>),
     PdfFile(FileA, <<"K", "i", "m", " ", "L", "e", "e", ",", " ", "J", "o", " ", "P", "a", "r", "k">>, <<Page51>>),
     PdfFile(FileA, <<"J", "a", "n", "e", " ", "D", "o", "e">>, <<<<>>, <<" ", "\n">>>>)}

\* The metadata of a file and the chunks of a page depend on the file and on
\* the page alone: for the files and pages of the model they are computed
\* once and looked up afterwards.
MetadataTable == [pdf_file \in PdfFiles |-> _extract_metadata(pdf_file)]
ChunkTable == [text \in PageTexts |-> _split_into_chunks(text)]
Metadata(pdf_file) ==
    IF pdf_file \in DOMAIN MetadataTable THEN MetadataTable[pdf_file]
    ELSE _extract_metadata(pdf_file)
Chunks(text) == IF text \in DOMAIN ChunkTable THEN ChunkTable[text] ELSE _split_into_chunks(text)

\* PDFLibrary.get_all_content()
get_all_content(lib, pages) ==
    With(PagesInOrder(pages), LAMBDA visited :
        Concat([n \in 1..Len(visited) |->
                  ContentOfPage(visited[n].filename, visited[n].page_data,
                                lib[visited[n].filename], Chunks(visited[n].page_data.text))]))

\* PDFLibrary.add_pdf(pdf_file): a file with readable text is stored, with
\* its pages and metadata.
AddPdf(pdf_file) ==
    /\ call' = Called("add_pdf", <<pdf_file>>, PyBool(content_by_page(pdf_file.pages) # <<>>))
    /\ IF content_by_page(pdf_file.pages) # <<>>
       THEN /\ library' = (pdf_file.name :> Metadata(pdf_file)) @@ library
            /\ pdf_pages' = Stored(pdf_pages, pdf_file.name, content_by_page(pdf_file.pages))
       ELSE UNCHANGED <<library, pdf_pages>>
    /\ UNCHANGED <<style, citation_counter, citation_map, client, entries, raw_entries, run,
                   order, before, arg>>

\* PDFLibrary.remove_pdf(filename)
RemovePdf(filename) ==
    /\ call' = Called("remove_pdf", <<filename>>, PyBool(filename \in DOMAIN library))
    /\ library' = Without(library, filename)
    /\ pdf_pages' = Removed(pdf_pages, filename)
    /\ UNCHANGED <<style, citation_counter, citation_map, client, entries, raw_entries, run,
                   order, before, arg>>

\* PDFLibrary.get_all_content()
GetAllContent ==
    /\ call' = Called("get_all_content", <<>>, get_all_content(library, pdf_pages))
    /\ UNCHANGED <<style, citation_counter, citation_map, client, library, pdf_pages, entries,
                   raw_entries, run, order, before, arg>>

\* PDFLibrary.search_content(query, max_results)
SearchContent(query, max_results) ==
    /\ call' = Called("search_content", <<query, max_results>>,
                      search_content(library, pdf_pages, query, max_results))
    /\ UNCHANGED <<style, citation_counter, citation_map, client, library, pdf_pages, entries,
                   raw_entries, run, order, before, arg>>

\* The queries and the greatest max_results of the searches.
Queries == {<<"R", "i", "v", "e", "r">>, <<>>, <<"z", "e", "b", "r", "a">>}
MaxResults == 2

\* A new library beside a processor that scores FACTUAL claims with the
\* bibliography of one entry.
InitLibrary ==
    /\ style = "APA"
    /\ citation_counter = NewFormatter.counter
    /\ citation_map = NewFormatter.map
    /\ client = TRUE
    /\ library = <<>>
    /\ pdf_pages = <<>>
    /\ entries = IndexOf(<<EntrySurvey>>)
    /\ raw_entries = <<EntrySurvey>>
    /\ run = NoRun
    /\ order = <<>>
    /\ before = <<>>
    /\ arg = <<"FACTUAL", TRUE>>
    /\ call = NoCall

NextLibrary ==
    \/ \E pdf_file \in PdfFiles : AddPdf(pdf_file)
    \/ \E filename \in {FileSurvey, FileNotes, FileA} : RemovePdf(filename)
    \/ GetAllContent
    \/ \E query \in Queries, max_results \in 0..MaxResults : SearchContent(query, max_results)
    \/ \E f \in DOMAIN library : CalculateSourceAuthority(Source(f, library[f]))

\* Uploads, removals, listings and searches of the library, and the scoring
\* of its documents.
SpecLibrary == InitLibrary /\ [][NextLibrary]_vars

\* C22: in the metadata of every stored document, whenever authors is not
\* empty and author is set, author is the elements of authors joined by
\* ", ": after add_pdf and after any scoring with the bibliography.
AuthorsOf(metadata) ==
    [i \in 1..Len(Get(metadata, "authors", PyList(<<>>)).v) |->
       Get(metadata, "authors", PyList(<<>>)).v[i].v]
C22_AuthorIsAuthorsJoined ==
    \A f \in DOMAIN library :
        (AuthorsOf(library[f]) # <<>> /\ Field(library[f], "author").v # <<>>) =>
            Field(library[f], "author").v = Join(<<",", " ">>, AuthorsOf(library[f]))

\* C23: get_all_content lists every chunk of 50 or more characters of every
\* page of every stored document, with its filename, page number and the
\* metadata of the document, and lists no chunk shorter than that.
C23_ListsChunksOfFiftyOrMore ==
    call.op = "get_all_content" =>
        /\ \A d \in 1..Len(pdf_pages) : \A p \in 1..Len(pdf_pages[d].pages) :
             \A c \in 1..Len(Chunks(pdf_pages[d].pages[p].text)) :
                Len(Chunks(pdf_pages[d].pages[p].text)[c]) >= 50 =>
                   \E i \in 1..Len(call.out) :
                      call.out[i] = [filename |-> pdf_pages[d].filename,
                                     page |-> pdf_pages[d].pages[p].page,
                                     text |-> Chunks(pdf_pages[d].pages[p].text)[c],
                                     metadata |-> library[pdf_pages[d].filename]]
        /\ \A i \in 1..Len(call.out) : Len(call.out[i].text) >= 50

\* C24: search_content(query, max_results) returns at most max_results hits,
\* for every max_results from 0 on, and every hit is of a page of a stored
\* document whose text holds the query, whatever the case of the letters.
C24_AtMostMaxResults ==
    call.op = "search_content" =>
        /\ Len(call.out) <= call.args[2]
        /\ \A i \in 1..Len(call.out) :
             \E d \in 1..Len(pdf_pages) : \E p \in 1..Len(pdf_pages[d].pages) :
                /\ pdf_pages[d].filename = call.out[i].filename
                /\ pdf_pages[d].pages[p].page = call.out[i].page
                /\ Contains(Lower(pdf_pages[d].pages[p].text), Lower(call.args[1]))

\* C25: scoring never changes the library: _calculate_source_authority and
\* _find_supporting_content (with the alternative matches it looks for)
\* leave the stored metadata of every document as it was, with or without a
\* matching bibliography entry; a document changes only by add_pdf or
\* remove_pdf.
C25_ScoringLeavesLibrary ==
    [][library' # library => call'.op \in {"add_pdf", "remove_pdf"}]_vars

\* C26: under IEEE format_reference_list lists every distinct non-empty
\* source of the citations list exactly once, whatever the numbering: the
\* list has one entry for each such source, and each has an entry that is a
\* reference of one of its citations.
C26_EverySourceOnce ==
    IeeeListCall =>
      /\ Len(Entries(call.out.v)) = Cardinality(ListedSources)
      /\ \A s \in ListedSources :
           \E k \in 1..Len(Entries(call.out.v)), j \in 1..Len(arg) :
              /\ SourceOf(arg[j]) = s
              /\ EndsWith(Entries(call.out.v)[k], Ref(arg[j]))

\* The numbers in use, and the filenames that were given a number by an IEEE
\* in-text citation since the numbering was last cleared.
NumbersInUse == {citation_map[f] : f \in DOMAIN citation_map}
CitedSinceCleared == {order[i] : i \in 1..Len(order)}

\* C27: in every state of the formatter the numbers in use are exactly 1..n,
\* none of them given twice, where n is the number of distinct filenames
\* that an IEEE in-text citation numbered since the numbering was last
\* cleared; the counter is n, and an IEEE in-text citation of a filename
\* without a number gives it the number after the counter it found.
C27_NumbersAreOneToN ==
    /\ NumbersInUse = 1..Cardinality(CitedSinceCleared)
    /\ Cardinality(DOMAIN citation_map) = Cardinality(NumbersInUse)
    /\ citation_counter = Cardinality(CitedSinceCleared)
    /\ (IeeeInTextCall /\ CalledFile \notin DOMAIN call.pre.map) =>
         /\ citation_map[CalledFile] = call.pre.counter + 1
         /\ call.out = PyStr(IeeeInText(call.pre.counter + 1, call.args[2]))

\* C27 witness: after a clearing that found numbers, B and A had the numbers
\* 1 and 2 and the in-text citation of C gave it the number 3.
C27_Witness ==
    /\ IeeeInTextCall
    /\ before # <<>>
    /\ call.pre.map = (FileB :> 1) @@ (FileA :> 2)
    /\ CalledFile = FileC
    /\ citation_map = (FileB :> 1) @@ (FileA :> 2) @@ (FileC :> 3)
    /\ citation_counter = 3

\* The last call is one of those that may change the numbering: reset_state,
\* set_style("IEEE"), or an in-text citation that reached the IEEE formatter
\* with a filename that had no number.
MayRenumber ==
    \/ call.op = "reset_state"
    \/ call.op = "set_style" /\ call.args[1] = "IEEE"
    \/ IeeeInTextCall /\ CalledFile \notin DOMAIN call.pre.map

\* C28: the counter and the map are changed only by reset_state, by
\* set_style("IEEE") and by an IEEE in-text citation that goes through for a
\* filename without a number; every other call (format_citation,
\* format_reference_list, validate_citation_format, set_style to another
\* style, in-text citations under APA, MLA and Chicago, an IEEE in-text
\* citation of a numbered filename or one that returns the fallback) leaves
\* them as it found them.
C28_NumberingFrame ==
    ~MayRenumber => (citation_counter = call.pre.counter /\ citation_map = call.pre.map)

\* C28 witness: under IEEE with A numbered, an in-text citation of A whose
\* metadata make the extraction raise returned the fallback and left the
\* numbering.
C28_Witness ==
    /\ call.op = "format_in_text_citation"
    /\ call.pre.style = "IEEE"
    /\ ~InTextExtracts("IEEE", call.args[1])
    /\ call.out = PyStr(S_UnknownNd)
    /\ call.pre.map = (FileB :> 1)
    /\ citation_map = (FileB :> 1)
    /\ citation_counter = 1

\* The metadata and the year of the source of the last in-text citation.
CalledInTextMetadata == Get(call.args[1], "metadata", EmptyDict)
CalledInTextYear == Year(CalledInTextMetadata, CalledFile)

\* C29: whenever a valid year can be extracted for the source, the in-text
\* citation under APA and under Chicago contains that year, whether an
\* author is known or not and with or without a page.
C29_InTextHasYear ==
    (/\ call.op = "format_in_text_citation"
     /\ call.pre.style \in {"APA", "Chicago"}
     /\ InTextExtracts(call.pre.style, call.args[1])
     /\ Truthy(CalledInTextYear.v))
      => Contains(call.out.v, ToStr(CalledInTextYear.v))

\* A run of process_paper with a client has returned its result under IEEE.
IeeeRunEnded ==
    /\ call.op = "process_paper"
    /\ client
    /\ call.pre.style = "IEEE"
    /\ run.pc = "idle"
    /\ call.out.t = "dict"

\* The entries of the references of the result, and the reference of a source
\* as the run formats it.
RunEntries == Entries(Field(call.out, "references").v)
RunReference(source) ==
    _format_full_reference("IEEE", Citation(source, Essential(Library[source]))).v

\* C30: in a run of process_paper under IEEE, whatever the claims (found in
\* the text or not, their sources repeated or not), every in-text marker
\* inserted for a source carries a number N such that the N-th entry of the
\* references of the result is labelled [N] and is the reference of that
\* source.
C30_MarkerMatchesReferenceLine ==
    IeeeRunEnded =>
      \A i \in 1..Len(run.cited_text) :
         \E N \in 1..MaxClaims :
            /\ run.cited_text[i].text = PyStr(IeeeInText(N, Page7))
            /\ N <= Len(RunEntries)
            /\ RunEntries[N] = Label(N) \o RunReference(run.cited_text[i].source)

\* C30 witness: the first claim is supported by A but not found in the text,
\* the second is cited from B with [1] and the third from A with [2]; the
\* references list B on the line [1] and A on the line [2].
C30_Witness ==
    /\ IeeeRunEnded
    /\ run.citations_found = <<FileA, FileB, FileA>>
    /\ run.cited_text = <<[source |-> FileB, text |-> PyStr(IeeeInText(1, Page7))],
                          [source |-> FileA, text |-> PyStr(IeeeInText(2, Page7))]>>
    /\ RunEntries = <<Label(1) \o RunReference(FileB), Label(2) \o RunReference(FileA)>>
====
